---- MODULE Spec2Model ----
(***************************************************************************)
(* Tally system backend: the allocation / tally-log reconciliation engine  *)
(* (backend/app/crud/tally_log_entry.py, allocation_details.py) and the    *)
(* weight-classification validator (backend/app/crud/                      *)
(* weight_classification.py), as state machines over the relational       *)
(* tables.  Every action is one request handler, executed as one database  *)
(* transaction.                                                            *)
(*                                                                         *)
(* Optional[T] values are sets: None is {} and a present value v is {v}.   *)
(* Counts and heads are whole numbers (the tables store them as Float;     *)
(* whole floats add and subtract exactly).  result is the answer to the    *)
(* last request: "ok", "invalid" (422, the body fails its schema),         *)
(* "not_found" (404), "conflict" or "error" (an exception of the handler). *)
(* A commit that breaks a CHECK or UNIQUE constraint of the migrations     *)
(* raises, and the transaction is rolled back.                             *)
(* update_tally_log_entry commits twice, the edit and then its audit row;  *)
(* pending holds the audit row of an update that is between its commits.   *)
(* In SpecConcurrent requests overlap: a handler is then a transaction     *)
(* whose queries, flush and commit are steps of their own, txns holds the  *)
(* objects each database session has loaded, and allocation_details is the *)
(* table by row id, so that two rows of one pair can be told apart.        *)
(***************************************************************************)
EXTENDS Integers, Sequences, FiniteSets, TLC

VARIABLES
    wcs,            \* weight_classifications table
    sessions,       \* tally_sessions table
    entries,        \* tally_log_entries table
    nextEntryId,    \* next primary key of tally_log_entries
    allocs,         \* allocation_details table
    nextSessionId,  \* next primary key of tally_sessions
    audits,         \* tally_log_entry_audit table, oldest row first
    pending,        \* audit row of the update between its two commits
    allocation_details, \* allocation_details table by row id (concurrent runs)
    txns,           \* the open transactions of the concurrent runs
    result          \* outcome of the last request

vars ==
    <<wcs, sessions, entries, nextEntryId, allocs, nextSessionId, audits,
      pending, allocation_details, txns, result>>

\* the tables the weight-classification handlers do not touch
ledgerVars ==
    <<sessions, entries, nextEntryId, allocs, nextSessionId, audits, pending,
      allocation_details, txns>>

\* the state of the runs in which requests overlap: the handlers of the
\* other runs finish before the next request starts
concurrentVars == <<allocation_details, txns>>

None == {}

Some(v) == {v}

Val(o) == CHOOSE v \in o : TRUE

(***************************************************************************)
(* Bounds of the model.                                                    *)
(***************************************************************************)
MaxWc == 2

(***************************************************************************)
(* Value domains.                                                          *)
(***************************************************************************)
Plants == {1, 2}

Categories == {"Dressed", "Byproduct", "Frozen"}

\* the categories that carry a weight range
RangeCategories == {"Dressed", "Frozen"}

Weights == {1, 2}

Names == {"a", "A", "b"}

Descriptions == {"d", "D"}

OptDescriptions == {None} \cup {Some(d) : d \in Descriptions}

OptWeights == {None} \cup {Some(w) : w \in Weights}

\* float('-inf') and float('inf') of _ranges_overlap: below and above every weight
NegInf == -1000000

PosInf == 1000000

\* str.lower() on the strings of the model
Lower(s) ==
    CASE s = "A" -> "a"
      [] s = "B" -> "b"
      [] s = "D" -> "d"
      [] OTHER -> s

\* str.strip() on the strings of the model
Strip(s) ==
    CASE s = " " -> ""
      [] OTHER -> s

\* truthiness of an Optional[str]: None and "" are falsy
Truthy(o) == o # None /\ Val(o) # ""

(***************************************************************************)
(* Weight classifications (crud/weight_classification.py).                 *)
(* wcs is the weight_classifications table: row i has id i.                *)
(***************************************************************************)
WcIds == DOMAIN wcs

\* _ranges_overlap with strict comparisons: ranges that only touch pass
_ranges_overlap_strict(min1, max1, min2, max2) ==
    IF (min1 = None /\ max1 = None) \/ (min2 = None /\ max2 = None)
    THEN TRUE
    ELSE LET min1_val == IF min1 = None THEN NegInf ELSE Val(min1)
             max1_val == IF max1 = None THEN PosInf ELSE Val(max1)
             min2_val == IF min2 = None THEN NegInf ELSE Val(min2)
             max2_val == IF max2 = None THEN PosInf ELSE Val(max2)
         IN  min1_val < max2_val /\ min2_val < max1_val

_ranges_overlap(min1, max1, min2, max2) ==
    IF (min1 = None /\ max1 = None) \/ (min2 = None /\ max2 = None)
    THEN TRUE
    ELSE LET min1_val == IF min1 = None THEN NegInf ELSE Val(min1)
             max1_val == IF max1 = None THEN PosInf ELSE Val(max1)
             min2_val == IF min2 = None THEN NegInf ELSE Val(min2)
             max2_val == IF max2 = None THEN PosInf ELSE Val(max2)
         IN  min1_val <= max2_val /\ min2_val <= max1_val

\* _check_byproduct_duplicates comparing the names without lower()
_check_byproduct_duplicates_cased(plant_id, classification, description, exclude_id) ==
    \E i \in WcIds :
        /\ wcs[i].plant_id = plant_id
        /\ wcs[i].category = "Byproduct"
        /\ ~(exclude_id # None /\ i = Val(exclude_id))
        /\ \/ wcs[i].classification = classification
           \/ /\ Truthy(description)
              /\ Truthy(wcs[i].description)
              /\ Strip(Lower(Val(wcs[i].description))) = Strip(Lower(Val(description)))

\* TRUE when the function raises ValueError
_check_byproduct_duplicates(plant_id, classification, description, exclude_id) ==
    \E i \in WcIds :
        /\ wcs[i].plant_id = plant_id
        /\ wcs[i].category = "Byproduct"
        /\ ~(exclude_id # None /\ i = Val(exclude_id))
        /\ \/ Lower(wcs[i].classification) = Lower(classification)
           \/ /\ Truthy(description)
              /\ Truthy(wcs[i].description)
              /\ Strip(Lower(Val(wcs[i].description))) = Strip(Lower(Val(description)))

\* _check_overlaps that checks the Dressed category only
_check_overlaps_dressed_only(plant_id, category, min_weight, max_weight, exclude_id) ==
    IF category # "Dressed"
    THEN FALSE
    ELSE \E i \in WcIds :
            /\ wcs[i].plant_id = plant_id
            /\ wcs[i].category = category
            /\ ~(exclude_id # None /\ i = Val(exclude_id))
            /\ _ranges_overlap(min_weight, max_weight,
                               wcs[i].min_weight, wcs[i].max_weight)

\* TRUE when the function raises ValueError
_check_overlaps(plant_id, category, min_weight, max_weight, exclude_id) ==
    IF category = "Byproduct"
    THEN FALSE
    ELSE \E i \in WcIds :
            /\ wcs[i].plant_id = plant_id
            /\ wcs[i].category = category
            /\ ~(exclude_id # None /\ i = Val(exclude_id))
            /\ _ranges_overlap(min_weight, max_weight,
                               wcs[i].min_weight, wcs[i].max_weight)

\* WeightClassificationBase validators: TRUE when the request body is accepted
WeightClassificationBase_validate(req) ==
    /\ req.category \in Categories
    /\ (req.default_heads # None => Val(req.default_heads) >= 0)
    /\ IF req.category = "Byproduct"
       THEN Truthy(req.description) /\ Strip(Val(req.description)) # ""
       ELSE ~(/\ req.min_weight # None
              /\ req.max_weight # None
              /\ Val(req.max_weight) < Val(req.min_weight))

\* "ok", or "conflict" when a ValueError is raised
create_weight_classification_result(req) ==
    IF req.category = "Byproduct"
    THEN IF _check_byproduct_duplicates(req.plant_id, req.classification,
                                        req.description, None)
         THEN "conflict" ELSE "ok"
    ELSE IF _check_overlaps(req.plant_id, req.category,
                            req.min_weight, req.max_weight, None)
         THEN "conflict" ELSE "ok"

\* ck_weight_classifications_weights as revision 003 wrote it: a row with a
\* max_weight has a min_weight
ck_weight_classifications_weights_003(row) ==
    \/ (row.min_weight = None /\ row.max_weight = None)
    \/ row.min_weight # None

\* CHECK ck_weight_classifications_weights of the weight_classifications
\* table: TRUE when the database takes the row
ck_weight_classifications_weights(row) ==
    \/ (row.min_weight = None /\ row.max_weight = None)
    \/ (row.min_weight # None /\ row.max_weight = None)
    \/ (row.min_weight = None /\ row.max_weight # None)
    \/ /\ row.min_weight # None
       /\ row.max_weight # None
       /\ Val(row.max_weight) >= Val(row.min_weight)

\* POST /plants/{plant_id}/weight-classifications; "error" is the
\* IntegrityError of the commit, which rolls the insert back
create_weight_classification(req) ==
    LET res == IF ~WeightClassificationBase_validate(req) THEN "invalid"
               ELSE IF create_weight_classification_result(req) # "ok"
               THEN create_weight_classification_result(req)
               ELSE IF ~ck_weight_classifications_weights(req) THEN "error"
               ELSE "ok"
    IN  /\ result' = res
        /\ wcs' = IF res = "ok" THEN Append(wcs, req) ELSE wcs
        /\ UNCHANGED ledgerVars

(***************************************************************************)
(* An update body: upd.set is the set of fields the client sent            *)
(* (model_dump(exclude_unset=True)); a field not sent holds its default.   *)
(***************************************************************************)
Sent(upd, field) == field \in upd.set

\* WeightClassificationUpdate validators: TRUE when the request body is accepted
WeightClassificationUpdate_validate(upd) ==
    /\ (upd.default_heads # None => Val(upd.default_heads) >= 0)
    /\ IF upd.category = Some("Byproduct")
       THEN TRUE
       ELSE IF upd.min_weight = None /\ upd.max_weight = None
            THEN TRUE
            ELSE ~(/\ upd.min_weight # None
                   /\ upd.max_weight # None
                   /\ Val(upd.max_weight) < Val(upd.min_weight))

\* the row after setattr of every field sent
WcApply(row, upd) ==
    [plant_id |-> row.plant_id,
     classification |-> IF Sent(upd, "classification") THEN Val(upd.classification)
                        ELSE row.classification,
     description |-> IF Sent(upd, "description") THEN upd.description
                     ELSE row.description,
     min_weight |-> IF Sent(upd, "min_weight") THEN upd.min_weight ELSE row.min_weight,
     max_weight |-> IF Sent(upd, "max_weight") THEN upd.max_weight ELSE row.max_weight,
     category |-> IF Sent(upd, "category") THEN Val(upd.category) ELSE row.category,
     default_heads |-> IF Sent(upd, "default_heads") THEN upd.default_heads
                       ELSE row.default_heads]

\* update_weight_classification that checks overlaps only when a bound is sent
update_weight_classification_result_bounds_only(wc_id, upd) ==
    LET final == WcApply(wcs[wc_id], upd)
    IN  IF final.category = "Byproduct"
        THEN IF /\ (Sent(upd, "classification") \/ Sent(upd, "description")
                      \/ Sent(upd, "category"))
                /\ _check_byproduct_duplicates(wcs[wc_id].plant_id, final.classification,
                                               final.description, Some(wc_id))
             THEN "conflict" ELSE "ok"
        ELSE IF /\ (Sent(upd, "min_weight") \/ Sent(upd, "max_weight"))
                /\ _check_overlaps(wcs[wc_id].plant_id, final.category,
                                   final.min_weight, final.max_weight, Some(wc_id))
             THEN "conflict" ELSE "ok"

\* "ok", or "conflict" when a ValueError is raised; wc_id exists
update_weight_classification_result(wc_id, upd) ==
    LET final == WcApply(wcs[wc_id], upd)
    IN  IF final.category = "Byproduct"
        THEN IF /\ (Sent(upd, "classification") \/ Sent(upd, "description")
                      \/ Sent(upd, "category"))
                /\ _check_byproduct_duplicates(wcs[wc_id].plant_id, final.classification,
                                               final.description, Some(wc_id))
             THEN "conflict" ELSE "ok"
        ELSE IF /\ (Sent(upd, "min_weight") \/ Sent(upd, "max_weight")
                      \/ Sent(upd, "category"))
                /\ _check_overlaps(wcs[wc_id].plant_id, final.category,
                                   final.min_weight, final.max_weight, Some(wc_id))
             THEN "conflict" ELSE "ok"

\* PUT /weight-classifications/{wc_id}; "error" is the IntegrityError of
\* the commit, which rolls the update back
update_weight_classification(wc_id, upd) ==
    LET res == IF ~WeightClassificationUpdate_validate(upd) THEN "invalid"
               ELSE IF wc_id \notin WcIds THEN "not_found"
               ELSE IF update_weight_classification_result(wc_id, upd) # "ok"
               THEN update_weight_classification_result(wc_id, upd)
               ELSE IF ~ck_weight_classifications_weights(WcApply(wcs[wc_id], upd))
               THEN "error"
               ELSE "ok"
    IN  /\ result' = res
        /\ wcs' = IF res = "ok"
                  THEN [wcs EXCEPT ![wc_id] = WcApply(wcs[wc_id], upd)]
                  ELSE wcs
        /\ UNCHANGED ledgerVars

(***************************************************************************)
(* Requests of the weight-range specification: every plant, range         *)
(* category and pair of bounds; one classification name.  The request      *)
(* sets hold the bodies that pass schema validation: FastAPI answers 422   *)
(* to the others before the handler runs.                                  *)
(***************************************************************************)
RangeCreate(p, c, mn, mx) ==
    [plant_id |-> p, classification |-> "a",
     description |-> IF c = "Byproduct" THEN Some("d") ELSE None,
     min_weight |-> mn, max_weight |-> mx, category |-> c,
     default_heads |-> Some(15)]

RangeCreateReqs ==
    {req \in {RangeCreate(p, c, mn, mx) : <<p, c, mn, mx>> \in
                Plants \X RangeCategories \X OptWeights \X OptWeights} :
        WeightClassificationBase_validate(req)}

RangeUpdate(s, c, mn, mx) ==
    [set |-> s, classification |-> None, description |-> None,
     min_weight |-> IF "min_weight" \in s THEN mn ELSE None,
     max_weight |-> IF "max_weight" \in s THEN mx ELSE None,
     category |-> IF "category" \in s THEN Some(c) ELSE None,
     default_heads |-> None]

RangeUpdateReqs ==
    {upd \in {RangeUpdate(s, c, mn, mx) : <<s, c, mn, mx>> \in
                (SUBSET {"min_weight", "max_weight", "category"}) \X RangeCategories
                    \X OptWeights \X OptWeights} :
        WeightClassificationUpdate_validate(upd)}

(***************************************************************************)
(* Requests of the naming specification: every plant, name and            *)
(* description, Dressed or Byproduct; one weight range.                    *)
(***************************************************************************)
NamedCreate(p, c, n, d) ==
    [plant_id |-> p, classification |-> n, description |-> d,
     min_weight |-> None, max_weight |-> Some(1), category |-> c,
     default_heads |-> Some(15)]

NamedCreateReqs ==
    {req \in {NamedCreate(p, c, n, d) : <<p, c, n, d>> \in
                Plants \X {"Dressed", "Byproduct"} \X Names \X OptDescriptions} :
        WeightClassificationBase_validate(req)}

NamedUpdate(s, c, n, d) ==
    [set |-> s,
     classification |-> IF "classification" \in s THEN Some(n) ELSE None,
     description |-> IF "description" \in s THEN d ELSE None,
     min_weight |-> None, max_weight |-> None,
     category |-> IF "category" \in s THEN Some(c) ELSE None,
     default_heads |-> None]

NamedUpdateReqs ==
    {NamedUpdate(s, c, n, d) : <<s, c, n, d>> \in
        (SUBSET {"classification", "description", "category"})
            \X {"Dressed", "Byproduct"} \X Names \X OptDescriptions}

\* the table has room for the row the request would add
WcRoom(req, max) ==
    \/ Len(wcs) < max
    \/ ~WeightClassificationBase_validate(req)
    \/ create_weight_classification_result(req) # "ok"

InitWC ==
    /\ wcs = <<>>
    /\ sessions = <<>>
    /\ nextSessionId = 1
    /\ entries = <<>>
    /\ nextEntryId = 1
    /\ allocs = <<>>
    /\ audits = <<>>
    /\ pending = None
    /\ allocation_details = <<>>
    /\ txns = <<>>
    /\ result = "ok"

CreateRanged ==
    \E req \in RangeCreateReqs :
        WcRoom(req, MaxWc) /\ create_weight_classification(req)

UpdateRanged ==
    \E wc_id \in 1..MaxWc, upd \in RangeUpdateReqs :
        update_weight_classification(wc_id, upd)

NextRanges == CreateRanged \/ UpdateRanged

SpecRanges == InitWC /\ [][NextRanges]_vars

CreateNamed ==
    \E req \in NamedCreateReqs :
        WcRoom(req, MaxWc) /\ create_weight_classification(req)

UpdateNamed ==
    \E wc_id \in 1..MaxWc, upd \in NamedUpdateReqs :
        update_weight_classification(wc_id, upd)

NextNamed == CreateNamed \/ UpdateNamed

SpecNamed == InitWC /\ [][NextNamed]_vars

(***************************************************************************)
(* Properties of the weight classifications.                               *)
(***************************************************************************)
SameScope(r1, r2) == r1.plant_id = r2.plant_id /\ r1.category = r2.category

\* w lies in the closed interval of the row; an absent bound is infinite
InInterval(w, row) ==
    /\ (row.min_weight = None \/ Val(row.min_weight) <= w)
    /\ (row.max_weight = None \/ w <= Val(row.max_weight))

\* the two closed intervals share a weight (a shared weight can be taken
\* among the bounds, or anywhere when no interval has a bound)
IntervalsMeet(r1, r2) ==
    \E w \in Weights : InInterval(w, r1) /\ InInterval(w, r2)

\* min1 <= max2 and min2 <= max1, an absent bound being infinite
BoundsCross(r1, r2) ==
    /\ (r1.min_weight = None \/ r2.max_weight = None
            \/ Val(r1.min_weight) <= Val(r2.max_weight))
    /\ (r2.min_weight = None \/ r1.max_weight = None
            \/ Val(r2.min_weight) <= Val(r1.max_weight))

IsCatchAll(row) == row.min_weight = None /\ row.max_weight = None

CatchAllClash(row, self) ==
    /\ row.category \in RangeCategories
    /\ \E i \in WcIds :
          /\ i \notin self
          /\ SameScope(wcs[i], row)
          /\ (IsCatchAll(row) \/ IsCatchAll(wcs[i]))

EqIgnoreCase(s, t) == s = t \/ {s, t} \in {{"a", "A"}, {"b", "B"}, {"d", "D"}}

\* C9: no two Byproduct classifications of one plant have names equal
\* ignoring case, nor non-empty descriptions equal ignoring case.
C9_ByproductUnique ==
    \A i, j \in WcIds :
        (/\ i # j
         /\ wcs[i].category = "Byproduct" /\ wcs[j].category = "Byproduct"
         /\ wcs[i].plant_id = wcs[j].plant_id)
            => /\ ~EqIgnoreCase(wcs[i].classification, wcs[j].classification)
               /\ ~(/\ wcs[i].description \notin {None, Some("")}
                    /\ wcs[j].description \notin {None, Some("")}
                    /\ EqIgnoreCase(Val(wcs[i].description), Val(wcs[j].description)))

\* two Byproduct classifications of one plant are stored, and a request
\* that would have duplicated one of them was rejected
C9_Witness ==
    /\ \E i, j \in WcIds :
          /\ i # j
          /\ wcs[i].category = "Byproduct" /\ wcs[j].category = "Byproduct"
          /\ wcs[i].plant_id = wcs[j].plant_id
          /\ wcs[i].description # None
    /\ result = "conflict"

(***************************************************************************)
(* The ledger (crud/tally_log_entry.py, crud/allocation_details.py).       *)
(*                                                                         *)
(* sessions maps a session id to its row, entries maps a log entry id to   *)
(* its row, allocs maps the pair <<tally_session_id,                       *)
(* weight_classification_id>> of an allocation_details row to its          *)
(* quantities.  A handler is an operator that yields the outcome of the    *)
(* request and the tables as the handler commits them; a handler that      *)
(* raises before its commit leaves the tables as they were (the database   *)
(* session is closed without a commit).                                    *)
(***************************************************************************)
MaxEntries == 2

MaxAudits == 1

Roles == {"tally", "dispatcher"}

Statuses == {"ongoing", "completed", "cancelled"}

SessionIds == DOMAIN sessions

EntryIds == DOMAIN entries

AllocKeys == DOMAIN allocs

\* the fallback of a classification without default_heads
FallbackHeads == 15

\* utcnow() of a transfer: the model has one instant
Now == 1

\* max(0.0, x)
Max0(x) == IF x < 0 THEN 0 ELSE x

\* allocation.heads, read as 0.0 when it is NULL
HeadsOr0(h) == IF h = None THEN 0 ELSE Val(h)

\* default_heads_of that ignores the classification
default_heads_fallback(wc_id) == FallbackHeads

\* wc.default_heads if wc.default_heads is not None else 15.0
default_heads_of(wc_id) ==
    IF wcs[wc_id].default_heads # None THEN Val(wcs[wc_id].default_heads)
    ELSE FallbackHeads

\* the allocation row a log entry handler creates when the pair has none
ZeroAllocation ==
    [required_bags |-> 0, allocated_bags_tally |-> 0,
     allocated_bags_dispatcher |-> 0, heads |-> Some(0)]

\* the table without the row of key k
DropKey(f, k) == [x \in (DOMAIN f) \ {k} |-> f[x]]

\* the table with row r under key k
PutKey(f, k, r) == [x \in (DOMAIN f) \cup {k} |-> IF x = k THEN r ELSE f[x]]

GetOrCreateAllocation(al, key) ==
    IF key \in DOMAIN al THEN al ELSE PutKey(al, key, ZeroAllocation)

\* IncrementAllocation that adds the heads of TALLY entries only
IncrementAllocation_tally_heads(al, key, role, heads_value) ==
    LET a == al[key]
    IN  PutKey(al, key,
            [required_bags |-> a.required_bags,
             allocated_bags_tally |->
                 IF role = "tally" THEN a.allocated_bags_tally + 1
                 ELSE a.allocated_bags_tally,
             allocated_bags_dispatcher |->
                 IF role = "dispatcher" THEN a.allocated_bags_dispatcher + 1
                 ELSE a.allocated_bags_dispatcher,
             heads |-> IF role = "tally"
                       THEN Some(HeadsOr0(a.heads) + heads_value)
                       ELSE Some(HeadsOr0(a.heads))])

\* one more bag of the role and heads_value more heads on the row of key
IncrementAllocation(al, key, role, heads_value) ==
    LET a == al[key]
    IN  PutKey(al, key,
            [required_bags |-> a.required_bags,
             allocated_bags_tally |->
                 IF role = "tally" THEN a.allocated_bags_tally + 1
                 ELSE a.allocated_bags_tally,
             allocated_bags_dispatcher |->
                 IF role = "dispatcher" THEN a.allocated_bags_dispatcher + 1
                 ELSE a.allocated_bags_dispatcher,
             heads |-> Some(HeadsOr0(a.heads) + heads_value)])

\* DecrementAllocation that leaves the heads as they are
DecrementAllocation_keeps_heads(al, key, role, heads_value) ==
    IF key \notin DOMAIN al THEN al
    ELSE LET a == al[key]
         IN  PutKey(al, key,
                 [required_bags |-> a.required_bags,
                  allocated_bags_tally |->
                      IF role = "tally" THEN Max0(a.allocated_bags_tally - 1)
                      ELSE a.allocated_bags_tally,
                  allocated_bags_dispatcher |->
                      IF role = "dispatcher"
                      THEN Max0(a.allocated_bags_dispatcher - 1)
                      ELSE a.allocated_bags_dispatcher,
                  heads |-> Some(HeadsOr0(a.heads))])

\* DecrementAllocation that leaves the DISPATCHER count as it is
DecrementAllocation_tally_only(al, key, role, heads_value) ==
    IF key \notin DOMAIN al THEN al
    ELSE LET a == al[key]
         IN  PutKey(al, key,
                 [required_bags |-> a.required_bags,
                  allocated_bags_tally |->
                      IF role = "tally" THEN Max0(a.allocated_bags_tally - 1)
                      ELSE a.allocated_bags_tally,
                  allocated_bags_dispatcher |-> a.allocated_bags_dispatcher,
                  heads |-> Some(Max0(HeadsOr0(a.heads) - heads_value))])

\* one bag of the role and heads_value heads fewer on the row of key, not
\* below zero; nothing when the pair has no row
DecrementAllocation(al, key, role, heads_value) ==
    IF key \notin DOMAIN al THEN al
    ELSE LET a == al[key]
         IN  PutKey(al, key,
                 [required_bags |-> a.required_bags,
                  allocated_bags_tally |->
                      IF role = "tally" THEN Max0(a.allocated_bags_tally - 1)
                      ELSE a.allocated_bags_tally,
                  allocated_bags_dispatcher |->
                      IF role = "dispatcher"
                      THEN Max0(a.allocated_bags_dispatcher - 1)
                      ELSE a.allocated_bags_dispatcher,
                  heads |-> Some(Max0(HeadsOr0(a.heads) - heads_value))])

\* the outcome of a request that changes nothing
Rejected(res) ==
    [result |-> res, entries |-> entries, nextEntryId |-> nextEntryId,
     allocs |-> allocs, audits |-> audits]

\* heads: Optional[float] = 15.0, the default of the request schema
SchemaDefaultHeads == 15

\* TallyLogEntryCreate(**body): the fields the body leaves out take the
\* defaults of the schema; body.set names the fields the body has
TallyLogEntryCreate_parse(body) ==
    [tally_session_id |-> body.tally_session_id,
     weight_classification_id |-> body.weight_classification_id,
     role |-> body.role,
     weight |-> body.weight,
     heads |-> IF "heads" \in body.set THEN body.heads
               ELSE Some(SchemaDefaultHeads),
     notes |-> IF "notes" \in body.set THEN body.notes ELSE None]

\* TallyLogEntryBase validators: TRUE when the request body is accepted
TallyLogEntryBase_validate(log_entry) ==
    /\ log_entry.weight > 0
    /\ (log_entry.heads # None => Val(log_entry.heads) >= 0)

\* POST /tally-sessions/{session_id}/log-entries
create_tally_log_entry(log_entry) ==
    LET s == log_entry.tally_session_id
        c == log_entry.weight_classification_id
        key == <<s, c>>
    IN  IF ~TallyLogEntryBase_validate(log_entry) THEN Rejected("invalid")
        ELSE IF s \notin SessionIds THEN Rejected("not_found")
        ELSE IF c \notin WcIds THEN Rejected("error")
        ELSE LET heads == IF log_entry.heads = None THEN default_heads_of(c)
                          ELSE Val(log_entry.heads)
                 row == [tally_session_id |-> s,
                         weight_classification_id |-> c,
                         role |-> log_entry.role,
                         weight |-> log_entry.weight,
                         heads |-> heads,
                         notes |-> log_entry.notes,
                         original_session_id |-> None,
                         transferred_at |-> None]
             IN  [result |-> "ok",
                  entries |-> PutKey(entries, nextEntryId, row),
                  nextEntryId |-> nextEntryId + 1,
                  allocs |-> IncrementAllocation(
                                 GetOrCreateAllocation(allocs, key), key,
                                 log_entry.role, heads),
                  audits |-> audits]

\* the audit rows that stay when the log entries ids are deleted: the
\* foreign key tally_log_entry_id is ON DELETE CASCADE
AuditsWithout(aud, ids) ==
    SelectSeq(aud, LAMBDA a : a.tally_log_entry_id \notin ids)

\* delete_tally_log_entry on the tables es, al and aud
delete_tally_log_entry_in(es, al, aud, entry_id) ==
    IF entry_id \notin DOMAIN es
    THEN [result |-> "not_found", entries |-> es, nextEntryId |-> nextEntryId,
          allocs |-> al, audits |-> aud]
    ELSE LET e == es[entry_id]
         IN  [result |-> "ok",
              entries |-> DropKey(es, entry_id),
              nextEntryId |-> nextEntryId,
              allocs |-> DecrementAllocation(al,
                             <<e.tally_session_id, e.weight_classification_id>>,
                             e.role, e.heads),
              audits |-> AuditsWithout(aud, {entry_id})]

\* DELETE /log-entries/{entry_id}
delete_tally_log_entry(entry_id) ==
    delete_tally_log_entry_in(entries, allocs, audits, entry_id)

\* TallyLogEntryUpdate validators: TRUE when the request body is accepted
TallyLogEntryUpdate_validate(upd) ==
    /\ (upd.weight # None => Val(upd.weight) > 0)
    /\ (upd.heads # None => Val(upd.heads) >= 0)

\* update_data.get(field, old): an Optional, None when the client sent null
UpdateGet(upd, field, old) == IF Sent(upd, field) THEN upd[field] ELSE Some(old)

\* update_tally_log_entry_raises without the comparison of the plants of the
\* old and the new session
update_tally_log_entry_raises_any_plant(entry_id, upd) ==
    LET e == entries[entry_id]
        old_session_id == e.tally_session_id
        old_wc_id == e.weight_classification_id
        new_session_id == UpdateGet(upd, "tally_session_id", old_session_id)
        new_wc_id == UpdateGet(upd, "weight_classification_id", old_wc_id)
    IN  \/ /\ new_session_id # Some(old_session_id)
           /\ \/ new_session_id = None
              \/ Val(new_session_id) \notin SessionIds
              \/ sessions[Val(new_session_id)].status # "ongoing"
        \/ /\ new_wc_id # Some(old_wc_id)
           /\ \/ new_wc_id = None
              \/ Val(new_wc_id) \notin WcIds
              \/ /\ old_wc_id \in WcIds
                 /\ wcs[old_wc_id].plant_id # wcs[Val(new_wc_id)].plant_id
        \* None has no .value when the audit changes are built
        \/ Sent(upd, "role") /\ upd.role = None
        \* weight is NOT NULL: the flush fails
        \/ Sent(upd, "weight") /\ upd.weight = None

\* TRUE when update_tally_log_entry raises before its first commit
update_tally_log_entry_raises(entry_id, upd) ==
    LET e == entries[entry_id]
        old_session_id == e.tally_session_id
        old_wc_id == e.weight_classification_id
        new_session_id == UpdateGet(upd, "tally_session_id", old_session_id)
        new_wc_id == UpdateGet(upd, "weight_classification_id", old_wc_id)
    IN  \/ /\ new_session_id # Some(old_session_id)
           /\ \/ new_session_id = None
              \/ Val(new_session_id) \notin SessionIds
              \/ /\ old_session_id \in SessionIds
                 /\ sessions[old_session_id].plant_id
                        # sessions[Val(new_session_id)].plant_id
              \/ sessions[Val(new_session_id)].status # "ongoing"
        \/ /\ new_wc_id # Some(old_wc_id)
           /\ \/ new_wc_id = None
              \/ Val(new_wc_id) \notin WcIds
              \/ /\ old_wc_id \in WcIds
                 /\ wcs[old_wc_id].plant_id # wcs[Val(new_wc_id)].plant_id
        \* None has no .value when the audit changes are built
        \/ Sent(upd, "role") /\ upd.role = None
        \* weight is NOT NULL: the flush fails
        \/ Sent(upd, "weight") /\ upd.weight = None

\* f"Session #{session.session_number}"
session_display(session_id) == <<"Session #", sessions[session_id].session_number>>

\* f"{wc.classification} ({wc.category})"
wc_display(wc_id) == <<wcs[wc_id].classification, wcs[wc_id].category>>

\* notes if notes is not None else ""
notes_str(notes) == IF notes = None THEN "" ELSE Val(notes)

AuditFields ==
    {"weight", "role", "heads", "notes", "weight_classification",
     "tally_session"}

\* the changes dictionary that update_tally_log_entry builds for the audit
\* trail, for a request that passes the validation
update_changes(entry_id, upd) ==
    LET e == entries[entry_id]
        old_session_id == e.tally_session_id
        old_wc_id == e.weight_classification_id
        old_heads == e.heads
        old_heads_value == old_heads
        new_session_id == Val(UpdateGet(upd, "tally_session_id", old_session_id))
        new_wc_id == Val(UpdateGet(upd, "weight_classification_id", old_wc_id))
        new_role == Val(UpdateGet(upd, "role", e.role))
        new_heads == UpdateGet(upd, "heads", old_heads)
        new_default_heads == default_heads_of(new_wc_id)
        new_heads_value ==
            IF new_heads # None THEN Val(new_heads) ELSE new_default_heads
        new_weight == Val(UpdateGet(upd, "weight", e.weight))
        new_notes == IF Sent(upd, "notes") THEN upd.notes ELSE e.notes
        changed ==
            {f \in AuditFields :
                \/ f = "weight" /\ Sent(upd, "weight") /\ new_weight # e.weight
                \/ f = "role" /\ Sent(upd, "role") /\ new_role # e.role
                \/ /\ f = "heads"
                   /\ IF Sent(upd, "heads") THEN new_heads_value # old_heads
                      ELSE /\ new_wc_id # old_wc_id
                           /\ new_heads_value # old_heads_value
                \/ /\ f = "notes" /\ Sent(upd, "notes")
                   /\ notes_str(new_notes) # notes_str(e.notes)
                \/ /\ f = "weight_classification"
                   /\ Sent(upd, "weight_classification_id")
                   /\ new_wc_id # old_wc_id
                \/ /\ f = "tally_session" /\ Sent(upd, "tally_session_id")
                   /\ new_session_id # old_session_id}
    IN  [f \in changed |->
            CASE f = "weight" -> [old |-> e.weight, new |-> new_weight]
              [] f = "role" -> [old |-> e.role, new |-> new_role]
              [] f = "heads" -> [old |-> old_heads_value, new |-> new_heads_value]
              [] f = "notes" ->
                     [old |-> notes_str(e.notes), new |-> notes_str(new_notes)]
              [] f = "weight_classification" ->
                     [old |-> wc_display(old_wc_id), new |-> wc_display(new_wc_id)]
              [] f = "tally_session" ->
                     [old |-> session_display(old_session_id),
                      new |-> session_display(new_session_id)]]

\* the row that create_audit_entry adds
AuditRow(entry_id, user_id, changes) ==
    [tally_log_entry_id |-> entry_id, user_id |-> user_id, changes |-> changes]

\* PUT /log-entries/{entry_id}: the tables after the handler's first commit
update_tally_log_entry_commit(entry_id, upd) ==
    IF ~TallyLogEntryUpdate_validate(upd) THEN Rejected("invalid")
    ELSE IF entry_id \notin EntryIds THEN Rejected("not_found")
    ELSE IF update_tally_log_entry_raises(entry_id, upd) THEN Rejected("error")
    ELSE LET e == entries[entry_id]
             old_session_id == e.tally_session_id
             old_wc_id == e.weight_classification_id
             old_role == e.role
             old_heads_value == e.heads
             new_session_id ==
                 Val(UpdateGet(upd, "tally_session_id", old_session_id))
             new_wc_id ==
                 Val(UpdateGet(upd, "weight_classification_id", old_wc_id))
             new_role == Val(UpdateGet(upd, "role", old_role))
             new_heads == UpdateGet(upd, "heads", e.heads)
             new_default_heads == default_heads_of(new_wc_id)
             new_heads_value ==
                 IF ~Sent(upd, "heads") /\ new_wc_id # old_wc_id
                 THEN new_default_heads
                 ELSE IF new_heads # None THEN Val(new_heads)
                 ELSE new_default_heads
             stored_heads ==
                 IF Sent(upd, "heads")
                 THEN IF upd.heads = None THEN new_default_heads
                      ELSE Val(upd.heads)
                 ELSE IF new_wc_id # old_wc_id THEN new_default_heads
                 ELSE e.heads
             row == [tally_session_id |-> new_session_id,
                     weight_classification_id |-> new_wc_id,
                     role |-> new_role,
                     weight |-> Val(UpdateGet(upd, "weight", e.weight)),
                     heads |-> stored_heads,
                     notes |-> IF Sent(upd, "notes") THEN upd.notes ELSE e.notes,
                     original_session_id |-> e.original_session_id,
                     transferred_at |-> e.transferred_at]
             old_key == <<old_session_id, old_wc_id>>
             new_key == <<new_session_id, new_wc_id>>
             decremented ==
                 DecrementAllocation(allocs, old_key, old_role, old_heads_value)
         IN  [result |-> "ok",
              entries |-> PutKey(entries, entry_id, row),
              nextEntryId |-> nextEntryId,
              allocs |-> IncrementAllocation(
                             GetOrCreateAllocation(decremented, new_key),
                             new_key, new_role, new_heads_value),
              audits |-> audits]

\* the audit row that update_tally_log_entry has to write after its first
\* commit: None when the request fails or changes is empty
update_audit(entry_id, upd, user_id) ==
    IF update_tally_log_entry_commit(entry_id, upd).result # "ok" THEN None
    ELSE IF DOMAIN update_changes(entry_id, upd) = {} THEN None
    ELSE Some(AuditRow(entry_id, user_id, update_changes(entry_id, upd)))

\* create_audit_entry that adds the row twice
create_audit_entry_twice(aud, row) == Append(Append(aud, row), row)

\* create_audit_entry on the table aud
create_audit_entry(aud, row) == Append(aud, row)

\* PUT /log-entries/{entry_id}, both commits of the handler
update_tally_log_entry(entry_id, upd, user_id) ==
    LET first == update_tally_log_entry_commit(entry_id, upd)
        row == update_audit(entry_id, upd, user_id)
    IN  IF row = None THEN first
        ELSE [first EXCEPT !.audits = create_audit_entry(first.audits, Val(row))]

\* the ids of a request's entry_ids list
IdsOf(entry_ids) == {entry_ids[k] : k \in DOMAIN entry_ids}

\* transfer_validate without the check of the target's status
transfer_validate_any_status(entry_ids, target_session_id) ==
    LET found == IdsOf(entry_ids) \cap EntryIds
        source_session_ids == {entries[i].tally_session_id : i \in found}
        source_plant_ids ==
            {sessions[s].plant_id : s \in source_session_ids \cap SessionIds}
        weight_classification_ids ==
            {entries[i].weight_classification_id : i \in found}
    IN  /\ Len(entry_ids) > 0
        /\ Cardinality(found) = Len(entry_ids)
        /\ \A i \in found : entries[i].tally_session_id # target_session_id
        /\ source_session_ids \subseteq SessionIds
        /\ Cardinality(source_plant_ids) <= 1
        /\ target_session_id \in SessionIds
        /\ sessions[target_session_id].plant_id \in source_plant_ids
        /\ \A c \in weight_classification_ids :
               c \in WcIds /\ wcs[c].plant_id \in source_plant_ids

\* TRUE when transfer_tally_log_entries raises none of its ValueErrors
transfer_validate(entry_ids, target_session_id) ==
    LET found == IdsOf(entry_ids) \cap EntryIds
        source_session_ids == {entries[i].tally_session_id : i \in found}
        source_plant_ids ==
            {sessions[s].plant_id : s \in source_session_ids \cap SessionIds}
        weight_classification_ids ==
            {entries[i].weight_classification_id : i \in found}
    IN  /\ Len(entry_ids) > 0
        /\ Cardinality(found) = Len(entry_ids)
        /\ \A i \in found : entries[i].tally_session_id # target_session_id
        /\ source_session_ids \subseteq SessionIds
        /\ Cardinality(source_plant_ids) <= 1
        /\ target_session_id \in SessionIds
        /\ sessions[target_session_id].plant_id \in source_plant_ids
        /\ sessions[target_session_id].status = "ongoing"
        /\ \A c \in weight_classification_ids :
               c \in WcIds /\ wcs[c].plant_id \in source_plant_ids

\* allocation_transfers: the number of TALLY entries of the request in the
\* group (source session, classification)
allocation_transfers(ids, group) ==
    Cardinality({i \in ids : /\ entries[i].role = "tally"
                             /\ entries[i].tally_session_id = group[1]
                             /\ entries[i].weight_classification_id = group[2]})

\* the loop that moves the entries: the allocation table after every entry
\* of ids has left its source row and joined the row of the target session
RECURSIVE transfer_counts(_, _, _)
transfer_counts(al, ids, target_session_id) ==
    IF ids = {} THEN al
    ELSE LET i == CHOOSE x \in ids : \A y \in ids : x <= y
             e == entries[i]
             source == <<e.tally_session_id, e.weight_classification_id>>
             target == <<target_session_id, e.weight_classification_id>>
             decremented == DecrementAllocation(al, source, e.role, e.heads)
         IN  transfer_counts(
                 IncrementAllocation(GetOrCreateAllocation(decremented, target),
                                     target, e.role, e.heads),
                 ids \ {i}, target_session_id)

\* required_bags_to_transfer without the cap of the source's requirement
required_bags_to_transfer_uncapped(entry_count, required_bags) == entry_count

\* min(float(entry_count), source_allocation.required_bags)
required_bags_to_transfer(entry_count, required_bags) ==
    IF entry_count < required_bags THEN entry_count ELSE required_bags

\* transfer_required_bags that adds to the target what it does not take
\* from the source
RECURSIVE transfer_required_bags_copies(_, _, _, _)
transfer_required_bags_copies(al, groups, ids, target_session_id) ==
    IF groups = {} THEN al
    ELSE LET g == CHOOSE x \in groups : TRUE
             target == <<target_session_id, g[2]>>
             moved == required_bags_to_transfer(allocation_transfers(ids, g),
                                                al[g].required_bags)
             created == GetOrCreateAllocation(al, target)
             given == [created EXCEPT ![target].required_bags =
                           created[target].required_bags + moved]
         IN  transfer_required_bags_copies(
                 IF g \in DOMAIN al /\ al[g].required_bags > 0
                 THEN given ELSE al,
                 groups \ {g}, ids, target_session_id)


\* the loop that moves required_bags, one group of allocation_transfers at
\* a time
RECURSIVE transfer_required_bags(_, _, _, _)
transfer_required_bags(al, groups, ids, target_session_id) ==
    IF groups = {} THEN al
    ELSE LET g == CHOOSE x \in groups : TRUE
             target == <<target_session_id, g[2]>>
             moved == required_bags_to_transfer(allocation_transfers(ids, g),
                                                al[g].required_bags)
             taken == [al EXCEPT ![g].required_bags =
                           Max0(al[g].required_bags - moved)]
             created == GetOrCreateAllocation(taken, target)
             given == [created EXCEPT ![target].required_bags =
                           created[target].required_bags + moved]
         IN  transfer_required_bags(
                 IF g \in DOMAIN al /\ al[g].required_bags > 0
                 THEN given ELSE al,
                 groups \ {g}, ids, target_session_id)

\* POST /log-entries/transfer
transfer_tally_log_entries(entry_ids, target_session_id) ==
    IF ~transfer_validate(entry_ids, target_session_id) THEN Rejected("error")
    ELSE LET ids == IdsOf(entry_ids)
             groups == {<<entries[i].tally_session_id,
                          entries[i].weight_classification_id>> :
                            i \in {j \in ids : entries[j].role = "tally"}}
             moved(e) ==
                 [e EXCEPT !.original_session_id =
                               IF e.original_session_id = None
                               THEN Some(e.tally_session_id)
                               ELSE e.original_session_id,
                           !.transferred_at = Some(Now),
                           !.tally_session_id = target_session_id]
         IN  [result |-> "ok",
              entries |-> [i \in EntryIds |->
                              IF i \in ids THEN moved(entries[i])
                              ELSE entries[i]],
              nextEntryId |-> nextEntryId,
              allocs |-> transfer_required_bags(
                             transfer_counts(allocs, ids, target_session_id),
                             groups, ids, target_session_id),
              audits |-> audits]

\* AllocationDetailsBase with the validator of heads alone
AllocationDetailsBase_validate_heads_only(body) ==
    body.heads # None => Val(body.heads) >= 0

\* AllocationDetailsBase validators: TRUE when the request body is accepted
AllocationDetailsBase_validate(body) ==
    /\ body.required_bags >= 0
    /\ body.allocated_bags_tally >= 0
    /\ body.allocated_bags_dispatcher >= 0
    /\ (body.heads # None => Val(body.heads) >= 0)

\* POST /tally-sessions/{session_id}/allocations
create_allocation_detail(body) ==
    LET key == <<body.tally_session_id, body.weight_classification_id>>
    IN  IF ~AllocationDetailsBase_validate(body) THEN Rejected("invalid")
        ELSE IF body.tally_session_id \notin SessionIds THEN Rejected("not_found")
        ELSE IF body.weight_classification_id \notin WcIds
             THEN Rejected("not_found")
        ELSE IF key \in AllocKeys THEN Rejected("error")
        ELSE [result |-> "ok", entries |-> entries, nextEntryId |-> nextEntryId,
              allocs |-> PutKey(allocs, key,
                  [required_bags |-> body.required_bags,
                   allocated_bags_tally |-> body.allocated_bags_tally,
                   allocated_bags_dispatcher |-> body.allocated_bags_dispatcher,
                   heads |-> body.heads]),
              audits |-> audits]

\* AllocationDetailsUpdate validators: TRUE when the request body is accepted
AllocationDetailsUpdate_validate(upd) ==
    upd.required_bags # None => Val(upd.required_bags) >= 0

\* update_allocation_detail_raises without the count of the log entries of
\* the row's pair
update_allocation_detail_raises_no_entry_check(key, upd) ==
    \/ /\ Sent(upd, "weight_classification_id")
       /\ upd.weight_classification_id # Some(key[2])
       /\ \E c \in upd.weight_classification_id : <<key[1], c>> \in AllocKeys
    \/ Sent(upd, "weight_classification_id") /\ upd.weight_classification_id = None
    \/ Sent(upd, "required_bags") /\ upd.required_bags = None


\* update_allocation_detail_raises without the check for a row that already
\* has the new pair
update_allocation_detail_raises_no_duplicate_check(key, upd) ==
    \/ /\ Sent(upd, "weight_classification_id")
       /\ upd.weight_classification_id # Some(key[2])
       /\ \E i \in EntryIds :
              /\ entries[i].tally_session_id = key[1]
              /\ entries[i].weight_classification_id = key[2]
    \/ Sent(upd, "weight_classification_id") /\ upd.weight_classification_id = None
    \/ Sent(upd, "required_bags") /\ upd.required_bags = None


\* TRUE when update_allocation_detail raises: the re-keying guards, and the
\* NOT NULL columns at the commit
update_allocation_detail_raises(key, upd) ==
    \/ /\ Sent(upd, "weight_classification_id")
       /\ upd.weight_classification_id # Some(key[2])
       /\ \/ \E i \in EntryIds :
                 /\ entries[i].tally_session_id = key[1]
                 /\ entries[i].weight_classification_id = key[2]
          \/ \E c \in upd.weight_classification_id : <<key[1], c>> \in AllocKeys
    \/ Sent(upd, "weight_classification_id") /\ upd.weight_classification_id = None
    \/ Sent(upd, "required_bags") /\ upd.required_bags = None

\* PUT /allocations/{allocation_id}, the row being the one of the pair key
update_allocation_detail(key, upd) ==
    IF ~AllocationDetailsUpdate_validate(upd) THEN Rejected("invalid")
    ELSE IF \E c \in upd.weight_classification_id : c \notin WcIds
         THEN Rejected("not_found")
    ELSE IF key \notin AllocKeys THEN Rejected("not_found")
    ELSE IF update_allocation_detail_raises(key, upd) THEN Rejected("error")
    ELSE LET new_key == <<key[1], Val(UpdateGet(upd, "weight_classification_id",
                                                 key[2]))>>
             row == [allocs[key] EXCEPT !.required_bags =
                        Val(UpdateGet(upd, "required_bags", @))]
         IN  [result |-> "ok", entries |-> entries, nextEntryId |-> nextEntryId,
              allocs |-> PutKey(DropKey(allocs, key), new_key, row),
              audits |-> audits]

\* delete_allocation_detail that deletes the row and leaves its log entries
delete_allocation_detail_row_only(key) ==
    IF key \notin AllocKeys THEN Rejected("not_found")
    ELSE [result |-> "ok", entries |-> entries, nextEntryId |-> nextEntryId,
          allocs |-> DropKey(allocs, key), audits |-> audits]

\* DELETE /allocations/{allocation_id}, the row being the one of the pair
\* key: the log entries of the pair go with the row, and their audit rows
\* with them
delete_allocation_detail(key) ==
    IF key \notin AllocKeys THEN Rejected("not_found")
    ELSE LET deleted == {i \in EntryIds :
                            /\ entries[i].tally_session_id = key[1]
                            /\ entries[i].weight_classification_id = key[2]}
         IN  [result |-> "ok",
              entries |-> [i \in EntryIds \ deleted |-> entries[i]],
              nextEntryId |-> nextEntryId,
              allocs |-> DropKey(allocs, key),
              audits |-> AuditsWithout(audits, deleted)]


\* reset_allocated_bags_for_session that deletes the entries of both roles
reset_allocated_bags_any_role(session_id, reset_tally, reset_dispatcher) ==
    LET allocations == {k \in AllocKeys : k[1] = session_id}
        deleted == {i \in EntryIds : entries[i].tally_session_id = session_id}
    IN  IF session_id \notin SessionIds THEN Rejected("not_found")
        ELSE IF allocations = {} THEN Rejected("ok")
        ELSE [result |-> "ok",
              entries |-> [i \in EntryIds \ deleted |-> entries[i]],
              nextEntryId |-> nextEntryId,
              allocs |-> [k \in AllocKeys |->
                  IF k \notin allocations THEN allocs[k]
                  ELSE [allocs[k] EXCEPT
                            !.allocated_bags_tally =
                                IF reset_tally THEN 0 ELSE @,
                            !.allocated_bags_dispatcher =
                                IF reset_dispatcher THEN 0 ELSE @]],
              audits |-> AuditsWithout(audits, deleted)]


\* POST /tally-sessions/{session_id}/allocations/reset-tally and
\* .../reset-dispatcher
reset_allocated_bags_for_session(session_id, reset_tally, reset_dispatcher) ==
    LET allocations == {k \in AllocKeys : k[1] = session_id}
        deleted == {i \in EntryIds :
                       /\ entries[i].tally_session_id = session_id
                       /\ \/ reset_tally /\ entries[i].role = "tally"
                          \/ reset_dispatcher /\ entries[i].role = "dispatcher"}
    IN  IF session_id \notin SessionIds THEN Rejected("not_found")
        ELSE IF allocations = {} THEN Rejected("ok")
        ELSE [result |-> "ok",
              entries |-> [i \in EntryIds \ deleted |-> entries[i]],
              nextEntryId |-> nextEntryId,
              allocs |-> [k \in AllocKeys |->
                  IF k \notin allocations THEN allocs[k]
                  ELSE [allocs[k] EXCEPT
                            !.allocated_bags_tally =
                                IF reset_tally THEN 0 ELSE @,
                            !.allocated_bags_dispatcher =
                                IF reset_dispatcher THEN 0 ELSE @]],
              audits |-> AuditsWithout(audits, deleted)]

\* the index idx_customer_session_number, which is not unique and refuses
\* no row
idx_customer_session_number(table, session_id, row) == TRUE

\* UNIQUE uq_tally_sessions_customer_session_number of the tally_sessions
\* table: TRUE when the database takes row as the row of session_id
uq_tally_sessions_customer_session_number(table, session_id, row) ==
    \A j \in DOMAIN table \ {session_id} :
        ~(/\ table[j].customer_id = row.customer_id
          /\ table[j].session_number = row.session_number)

\* the row after setattr of every field sent; session_number is no field of
\* TallySessionUpdate
SessionApply(row, upd) ==
    [customer_id |-> Val(UpdateGet(upd, "customer_id", row.customer_id)),
     plant_id |-> Val(UpdateGet(upd, "plant_id", row.plant_id)),
     status |-> Val(UpdateGet(upd, "status", row.status)),
     session_number |-> row.session_number]

\* "ok", "not_found" or "error" of update_tally_session: a null in a
\* column that is NOT NULL, or a (customer_id, session_number) that another
\* session has, fails the commit
update_tally_session_result(session_id, upd) ==
    IF session_id \notin SessionIds THEN "not_found"
    ELSE IF \E f \in upd.set : upd[f] = None THEN "error"
    ELSE IF ~uq_tally_sessions_customer_session_number(sessions, session_id,
                SessionApply(sessions[session_id], upd))
    THEN "error"
    ELSE "ok"

\* PUT /tally-sessions/{session_id}: the sessions table after the handler.
\* The caller holds every permission, and a customer or plant that the body
\* names exists.
update_tally_session(session_id, upd) ==
    IF update_tally_session_result(session_id, upd) # "ok" THEN sessions
    ELSE [sessions EXCEPT ![session_id] = SessionApply(@, upd)]

\* coalesce(max(session_number), 0) over every session, whatever its customer
max_session_number_all(customer_id) ==
    LET numbers == {sessions[i].session_number : i \in SessionIds}
    IN  IF numbers = {} THEN 0
        ELSE CHOOSE n \in numbers : \A m \in numbers : m <= n

\* coalesce(max(session_number), 0) over the sessions of the customer
max_session_number(customer_id) ==
    LET numbers == {sessions[i].session_number :
                       i \in {j \in SessionIds :
                                 sessions[j].customer_id = customer_id}}
    IN  IF numbers = {} THEN 0
        ELSE CHOOSE n \in numbers : \A m \in numbers : m <= n

\* POST /tally-sessions: the sessions table after the handler.  The caller
\* may create sessions, and the customer and the plant of the body exist.
create_tally_session(tally_session) ==
    PutKey(sessions, nextSessionId,
        [customer_id |-> tally_session.customer_id,
         plant_id |-> tally_session.plant_id,
         status |-> tally_session.status,
         session_number |-> max_session_number(tally_session.customer_id) + 1])

\* the log entries that db.delete(db_session) deletes with the session
session_cascade(session_id) ==
    {i \in EntryIds : entries[i].tally_session_id = session_id}

\* TRUE when the commit of delete_tally_session fails: a log entry of another
\* session still names the session as its original_session_id
delete_tally_session_raises(session_id) ==
    \E i \in EntryIds \ session_cascade(session_id) :
        entries[i].original_session_id = Some(session_id)

\* "ok", "not_found" or "error" of DELETE /tally-sessions/{session_id}
delete_tally_session_result(session_id) ==
    IF session_id \notin SessionIds THEN "not_found"
    ELSE IF delete_tally_session_raises(session_id) THEN "error"
    ELSE "ok"

(***************************************************************************)
(* The ledger specifications start from two sessions in plant 1 and one    *)
(* in plant 2, two classifications in plant 1 and one in plant 2, all      *)
(* created through their handlers, and no entry and no allocation.         *)
(***************************************************************************)
LedgerSession(plant) ==
    [customer_id |-> 1, plant_id |-> plant, status |-> "ongoing",
     session_number |-> 0]

LedgerSessions ==
    <<[LedgerSession(1) EXCEPT !.session_number = 1],
      [LedgerSession(1) EXCEPT !.session_number = 2],
      [LedgerSession(2) EXCEPT !.session_number = 3]>>

LedgerWc(plant, name, mn, mx, heads) ==
    [plant_id |-> plant, classification |-> name, description |-> None,
     min_weight |-> mn, max_weight |-> mx, category |-> "Dressed",
     default_heads |-> Some(heads)]

LedgerWcs ==
    <<LedgerWc(1, "a", None, Some(1), 1),
      LedgerWc(1, "b", Some(2), None, 2),
      LedgerWc(2, "a", None, None, 1)>>

InitLedger ==
    /\ wcs = LedgerWcs
    /\ sessions = LedgerSessions
    /\ nextSessionId = Len(LedgerSessions) + 1
    /\ entries = <<>>
    /\ nextEntryId = 1
    /\ allocs = <<>>
    /\ audits = <<>>
    /\ pending = None
    /\ allocation_details = <<>>
    /\ txns = <<>>
    /\ result = "ok"

\* the tables and the answer that a handler leaves
CommitTables(post) ==
    /\ result' = post.result
    /\ entries' = post.entries
    /\ nextEntryId' = post.nextEntryId
    /\ allocs' = post.allocs
    /\ audits' = post.audits

\* the handler's commit, or its rollback when post is Rejected(...)
Commit(post) ==
    /\ CommitTables(post)
    /\ UNCHANGED <<wcs, sessions, nextSessionId, pending, concurrentVars>>

(***************************************************************************)
(* Requests.  An id that no row has is one that was never given or whose   *)
(* row was deleted; id 0 is never given.                                   *)
(***************************************************************************)
OptHeads == {None, Some(2)}

EntryCreate(p, r, h) ==
    [tally_session_id |-> p[1], weight_classification_id |-> p[2],
     role |-> r, weight |-> 1, heads |-> h, notes |-> None]

EntryUpdate(set, s, c, r, h) ==
    [set |-> set,
     tally_session_id |-> IF "tally_session_id" \in set THEN Some(s) ELSE None,
     weight_classification_id |->
         IF "weight_classification_id" \in set THEN Some(c) ELSE None,
     role |-> IF "role" \in set THEN Some(r) ELSE None,
     heads |-> IF "heads" \in set THEN h ELSE None,
     weight |-> None, notes |-> None]

\* update requests that send one field, or a classification with its heads
EntryUpdateReqs(sessionIds, wcIds) ==
    {EntryUpdate({"tally_session_id"}, s, 0, "tally", None) : s \in sessionIds}
    \cup {EntryUpdate({"weight_classification_id"}, 0, c, "tally", None) :
            c \in wcIds}
    \cup {EntryUpdate({"role"}, 0, 0, r, None) : r \in Roles}
    \cup {EntryUpdate({"heads"}, 0, 0, "tally", h) : h \in OptHeads}
    \cup {EntryUpdate({"weight_classification_id", "heads"}, 0, c, "tally",
                      Some(2)) : c \in wcIds}

\* the entry_ids lists: ascending lists of entry ids, the empty list among
\* them, and a list that names an entry twice
RECURSIVE AscendingLists(_, _)
AscendingLists(from, to) ==
    IF from > to THEN {<<>>}
    ELSE LET rest == AscendingLists(from + 1, to)
         IN  rest \cup {<<from>> \o l : l \in rest}

TransferLists == AscendingLists(1, MaxEntries) \cup {<<1, 1>>}

StatusUpdateReqs ==
    {[set |-> {"status"}, customer_id |-> None, plant_id |-> None,
      status |-> Some(st)] : st \in Statuses}

\* a create request, while the model has an id left for an entry it adds
CreateEntryOf(reqs) ==
    \E req \in reqs :
        LET post == create_tally_log_entry(req)
        IN  /\ post.result = "ok" => nextEntryId <= MaxEntries
            /\ Commit(post)

\* an update by user 1, while the model has room for the audit row it adds
UpdateEntryOf(reqs) ==
    \E entry_id \in 1..MaxEntries, upd \in reqs :
        LET post == update_tally_log_entry(entry_id, upd, 1)
        IN  /\ Len(post.audits) <= MaxAudits
            /\ Commit(post)

DeleteEntry ==
    \E entry_id \in 1..MaxEntries : Commit(delete_tally_log_entry(entry_id))

TransferEntriesTo(targets) ==
    \E entry_ids \in TransferLists, target_session_id \in targets :
        Commit(transfer_tally_log_entries(entry_ids, target_session_id))

(***************************************************************************)
(* The log entry handlers alone, from the empty ledger, on the sessions    *)
(* and classifications of plant 1; a transfer may name any session.        *)
(***************************************************************************)
LedgerCreateReqs ==
    {EntryCreate(p, r, h) :
        <<p, r, h>> \in ((1..2) \X (1..2)) \X Roles \X OptHeads}

CreateEntry == CreateEntryOf(LedgerCreateReqs)

UpdateEntry == UpdateEntryOf(EntryUpdateReqs(1..2, 1..2))

TransferEntries == TransferEntriesTo(0..3)

NextLedger == CreateEntry \/ UpdateEntry \/ DeleteEntry \/ TransferEntries

SpecLedger == InitLedger /\ [][NextLedger]_vars

(***************************************************************************)
(* Every handler that writes allocation quantities: the log entry          *)
(* handlers, the bulk resets, and the creation and update of allocation    *)
(* rows, on the sessions and classifications of plant 1.                   *)
(***************************************************************************)
AllocationCreate(key, required, tally, dispatcher, heads) ==
    [tally_session_id |-> key[1], weight_classification_id |-> key[2],
     required_bags |-> required, allocated_bags_tally |-> tally,
     allocated_bags_dispatcher |-> dispatcher, heads |-> heads]

\* the quantities of the allocation create requests: a requirement, heads
\* of null, and a negative value in each field
AllocationQuantities ==
    {<<1, 0, 0, Some(0)>>, <<0, 0, 0, None>>,
     <<-1, 0, 0, Some(0)>>, <<0, -1, 0, Some(0)>>, <<0, 0, -1, Some(0)>>,
     <<0, 0, 0, Some(-1)>>}

AllocationCreateReqs(keys) ==
    {AllocationCreate(key, q[1], q[2], q[3], q[4]) :
        <<key, q>> \in keys \X AllocationQuantities}

AllocationUpdate(set, c, required) ==
    [set |-> set,
     weight_classification_id |->
         IF "weight_classification_id" \in set THEN Some(c) ELSE None,
     required_bags |-> IF "required_bags" \in set THEN required ELSE None]

AllocationUpdateReqs ==
    {AllocationUpdate({"required_bags"}, 0, r) : r \in {Some(0), Some(-1), None}}
    \cup {AllocationUpdate({"weight_classification_id"}, c, None) : c \in 1..2}

CreateEntryAny ==
    CreateEntryOf({EntryCreate(p, r, None) :
        <<p, r>> \in {<<1, 1>>, <<2, 1>>} \X Roles})

UpdateEntryAny ==
    UpdateEntryOf({upd \in EntryUpdateReqs(1..2, 1..2) :
        upd.set \in {{"tally_session_id"}, {"role"}}})

TransferEntriesAny == TransferEntriesTo(1..2)

ResetAllocated ==
    \E session_id \in 1..2, role \in Roles :
        Commit(reset_allocated_bags_for_session(session_id, role = "tally",
                                                role = "dispatcher"))

CreateAllocation ==
    \E body \in AllocationCreateReqs({<<1, 1>>}) :
        Commit(create_allocation_detail(body))

UpdateAllocation ==
    \E key \in {1} \X (1..2), upd \in AllocationUpdateReqs :
        Commit(update_allocation_detail(key, upd))

Next ==
    \/ CreateEntryAny
    \/ UpdateEntryAny
    \/ DeleteEntry
    \/ TransferEntriesAny
    \/ ResetAllocated
    \/ CreateAllocation
    \/ UpdateAllocation

Spec == InitLedger /\ [][Next]_vars

(***************************************************************************)
(* The allocation rows of sessions 1 and 2 under every handler that adds,  *)
(* re-keys or deletes a row: the handlers of Spec with log entry updates   *)
(* that change the classification, and the deletion of allocation rows.    *)
(***************************************************************************)
AllocationPairs == (1..2) \X (1..2)

\* a body may state allocated_bags_tally: the row then has a count and no
\* log entry
CreateAllocationPairs ==
    \E body \in {AllocationCreate(<<1, 1>>, 0, 0, 0, Some(0)),
                  AllocationCreate(<<1, 1>>, 0, 1, 0, Some(0)),
                  AllocationCreate(<<1, 2>>, 0, 0, 0, Some(0))} :
        Commit(create_allocation_detail(body))

UpdateAllocationPairs ==
    \E key \in AllocationPairs, upd \in AllocationUpdateReqs :
        Commit(update_allocation_detail(key, upd))

DeleteAllocation ==
    \E key \in AllocationPairs : Commit(delete_allocation_detail(key))

CreateEntryPairs ==
    CreateEntryOf({EntryCreate(p, "tally", None) : p \in {<<1, 1>>, <<2, 1>>}})

UpdateEntryPairs ==
    UpdateEntryOf({upd \in EntryUpdateReqs(1..2, 1..2) :
        upd.set = {"weight_classification_id"}})

ResetTally ==
    \E session_id \in 1..2 :
        Commit(reset_allocated_bags_for_session(session_id, TRUE, FALSE))

NextAllocations ==
    \/ CreateEntryPairs
    \/ UpdateEntryPairs
    \/ DeleteEntry
    \/ TransferEntriesAny
    \/ ResetTally
    \/ CreateAllocationPairs
    \/ UpdateAllocationPairs
    \/ DeleteAllocation

SpecAllocations == InitLedger /\ [][NextAllocations]_vars


(***************************************************************************)
(* The handlers that move entries between sessions, with sessions that     *)
(* change status, both plants, and a requirement on an allocation row.     *)
(***************************************************************************)
CreateEntryPlants ==
    CreateEntryOf({EntryCreate(p, "tally", None) :
        p \in {<<1, 1>>, <<2, 1>>, <<3, 3>>, <<1, 3>>}})

UpdateEntryPlants ==
    UpdateEntryOf({upd \in EntryUpdateReqs(0..3, {3}) :
        upd.set \in {{"tally_session_id"}, {"weight_classification_id"}}})

TransferEntriesPlants == TransferEntriesTo(0..3)

UpdateSession ==
    \E session_id \in 1..2, upd \in StatusUpdateReqs :
        /\ sessions' = update_tally_session(session_id, upd)
        /\ result' = update_tally_session_result(session_id, upd)
        /\ UNCHANGED <<wcs, entries, nextEntryId, allocs, nextSessionId,
                       audits, pending, concurrentVars>>

CreateAllocationRequired ==
    \E key \in {<<1, 1>>, <<2, 1>>} :
        Commit(create_allocation_detail(AllocationCreate(key, 1, 0, 0, Some(0))))

NextGuards ==
    \/ CreateEntryPlants
    \/ UpdateEntryPlants
    \/ TransferEntriesPlants
    \/ UpdateSession
    \/ CreateAllocationRequired

SpecGuards == InitLedger /\ [][NextGuards]_vars

(***************************************************************************)
(* Transfers between three sessions of plant 1 whose allocation rows carry *)
(* requirements.                                                           *)
(***************************************************************************)
InitTransfer ==
    /\ wcs = LedgerWcs
    /\ sessions = <<[LedgerSession(1) EXCEPT !.session_number = 1],
                    [LedgerSession(1) EXCEPT !.session_number = 2],
                    [LedgerSession(1) EXCEPT !.session_number = 3]>>
    /\ nextSessionId = 4
    /\ entries = <<>>
    /\ nextEntryId = 1
    /\ allocs = <<>>
    /\ audits = <<>>
    /\ pending = None
    /\ allocation_details = <<>>
    /\ txns = <<>>
    /\ result = "ok"

\* the (session, classification) pairs of the source groups
GroupPairs == {<<1, 1>>, <<2, 1>>, <<1, 2>>}

CreateEntryGroups ==
    CreateEntryOf({EntryCreate(p, r, None) : <<p, r>> \in GroupPairs \X Roles})

CreateAllocationGroups ==
    \E key \in GroupPairs, required \in {1, 3} :
        Commit(create_allocation_detail(
                   AllocationCreate(key, required, 0, 0, Some(0))))

TransferEntriesGroups == TransferEntriesTo(1..3)

NextTransfer ==
    CreateEntryGroups \/ CreateAllocationGroups \/ TransferEntriesGroups

SpecTransfer == InitTransfer /\ [][NextTransfer]_vars

(***************************************************************************)
(* The log entry handlers with the audit trail.  An update is two steps,   *)
(* its commit of the edit and its commit of the audit row, and requests of *)
(* other clients are served between the two.  One update at a time is      *)
(* between its commits.                                                    *)
(***************************************************************************)
UserIds == 1..2

OptNotes == {None, Some(""), Some("n")}

\* the JSON body of a create request: set names the fields that are present
EntryCreateBody(set, p, r, h) ==
    [set |-> set, tally_session_id |-> p[1], weight_classification_id |-> p[2],
     role |-> r, weight |-> 1, heads |-> h, notes |-> None]

\* bodies without heads, with heads null and with heads 2
EntryCreateBodies(pairs) ==
    {EntryCreateBody({}, p, "tally", None) : p \in pairs}
    \cup {EntryCreateBody({"heads"}, p, "tally", h) :
            <<p, h>> \in pairs \X OptHeads}

\* update requests that send a weight or notes
EntryUpdateText(set, w, n) ==
    [set |-> set, tally_session_id |-> None, weight_classification_id |-> None,
     role |-> None, heads |-> None,
     weight |-> IF "weight" \in set THEN w ELSE None,
     notes |-> IF "notes" \in set THEN n ELSE None]

EntryUpdateTextReqs ==
    {EntryUpdateText({"weight"}, Some(2), None)}
    \cup {EntryUpdateText({"notes"}, None, n) : n \in OptNotes}
    \cup {EntryUpdateText({}, None, None)}

AuditCreatePairs == {<<1, 1>>, <<1, 2>>}

AuditUpdateReqs == EntryUpdateReqs(1..2, 1..2) \cup EntryUpdateTextReqs

CreateEntryBody ==
    CreateEntryOf({TallyLogEntryCreate_parse(body) :
                      body \in EntryCreateBodies(AuditCreatePairs)})

\* update_tally_log_entry up to its first commit
UpdateEntryCommit ==
    \E entry_id \in 1..MaxEntries, upd \in AuditUpdateReqs, user_id \in UserIds :
        LET row == update_audit(entry_id, upd, user_id)
        IN  /\ pending = None
            /\ row # None => Len(audits) < MaxAudits
            /\ CommitTables(update_tally_log_entry_commit(entry_id, upd))
            /\ pending' = row
            /\ UNCHANGED <<wcs, sessions, nextSessionId, concurrentVars>>

\* the second commit of update_tally_log_entry: the audit row, which the
\* database refuses when its log entry was deleted since the first commit
UpdateEntryAudit ==
    /\ pending # None
    /\ IF Val(pending).tally_log_entry_id \in EntryIds
       THEN /\ audits' = create_audit_entry(audits, Val(pending))
            /\ result' = "ok"
       ELSE /\ audits' = audits
            /\ result' = "error"
    /\ pending' = None
    /\ UNCHANGED <<wcs, sessions, entries, nextEntryId, allocs, nextSessionId,
                   concurrentVars>>

NextAudit ==
    \/ CreateEntryBody
    \/ UpdateEntryCommit
    \/ UpdateEntryAudit
    \/ DeleteEntry

SpecAudit == InitLedger /\ [][NextAudit]_vars

(***************************************************************************)
(* Entries that are all created in one session of three sessions of plant  *)
(* 1, and that updates and transfers move between the three.               *)
(***************************************************************************)
CreationSession == 1

CreateEntryOrigin ==
    CreateEntryOf({EntryCreate(<<CreationSession, 1>>, "tally", None)})

UpdateEntryOrigin ==
    UpdateEntryOf({upd \in EntryUpdateReqs(1..3, 1..2) :
        upd.set = {"tally_session_id"}})

TransferEntriesOrigin == TransferEntriesTo(1..3)

NextOrigin ==
    \/ CreateEntryOrigin
    \/ UpdateEntryOrigin
    \/ DeleteEntry
    \/ TransferEntriesOrigin

SpecOrigin == InitTransfer /\ [][NextOrigin]_vars

(***************************************************************************)
(* The session handlers, from a database without sessions: two customers   *)
(* open sessions in plant 1, and sessions change status.  SpecNumbering    *)
(* has no deletion, SpecSessions has.                                      *)
(***************************************************************************)
MaxSessions == 4

CustomerIds == 1..2

SessionCreateReqs ==
    {[customer_id |-> c, plant_id |-> 1, status |-> "ongoing"] :
        c \in CustomerIds}

CreateSession ==
    \E tally_session \in SessionCreateReqs :
        /\ nextSessionId <= MaxSessions
        /\ sessions' = create_tally_session(tally_session)
        /\ nextSessionId' = nextSessionId + 1
        /\ result' = "ok"
        /\ UNCHANGED <<wcs, entries, nextEntryId, allocs, audits, pending,
                       concurrentVars>>

DeleteSession ==
    \E session_id \in 1..MaxSessions :
        LET deleted == session_cascade(session_id)
            res == delete_tally_session_result(session_id)
        IN  /\ result' = res
            /\ IF res = "ok"
               THEN /\ sessions' = DropKey(sessions, session_id)
                    /\ entries' = [i \in EntryIds \ deleted |-> entries[i]]
                    /\ allocs' = [k \in {x \in AllocKeys : x[1] # session_id}
                                     |-> allocs[k]]
                    /\ audits' = AuditsWithout(audits, deleted)
               ELSE UNCHANGED <<sessions, entries, allocs, audits>>
            /\ UNCHANGED <<wcs, nextEntryId, nextSessionId, pending,
                           concurrentVars>>

UpdateSessionStatus ==
    \E session_id \in 1..MaxSessions, upd \in StatusUpdateReqs :
        /\ sessions' = update_tally_session(session_id, upd)
        /\ result' = update_tally_session_result(session_id, upd)
        /\ UNCHANGED <<wcs, entries, nextEntryId, allocs, nextSessionId,
                       audits, pending, concurrentVars>>

NextNumbering == CreateSession \/ UpdateSessionStatus

SpecNumbering == InitWC /\ [][NextNumbering]_vars

NextSessions == CreateSession \/ DeleteSession \/ UpdateSessionStatus

SpecSessions == InitWC /\ [][NextSessions]_vars

\* SpecCustomers: sessions are created, deleted and moved to another
\* customer.
CustomerUpdateReqs ==
    {[set |-> {"customer_id"}, customer_id |-> Some(c), plant_id |-> None,
      status |-> None] : c \in CustomerIds}

UpdateSessionCustomer ==
    \E session_id \in 1..MaxSessions, upd \in CustomerUpdateReqs :
        /\ sessions' = update_tally_session(session_id, upd)
        /\ result' = update_tally_session_result(session_id, upd)
        /\ UNCHANGED <<wcs, entries, nextEntryId, allocs, nextSessionId,
                       audits, pending, concurrentVars>>

NextCustomers == CreateSession \/ DeleteSession \/ UpdateSessionCustomer

SpecCustomers == InitWC /\ [][NextCustomers]_vars

(***************************************************************************)
(* Overlapping requests.  Each request runs in its own database session    *)
(* (get_db), in a thread of the server's pool.  A transaction reads what   *)
(* is committed and what it wrote itself; the objects it has loaded keep   *)
(* the values they were loaded with; its commit writes the columns whose   *)
(* value the handler changed, with the value the handler computed.  The    *)
(* row a handler inserted and flushed is in txns until the commit.         *)
(***************************************************************************)
TxnIds == 1..2

\* the session and classification pairs of the overlapping requests
ConcurrentPairs == {<<1, 1>>, <<1, 2>>}

IdleTxn ==
    [pc |-> "idle", log_entry |-> None, entry_id |-> 0, allocation |-> None,
     inserted |-> None]

\* AllocationDetails(**allocation_create.model_dump()) of the auto-create
NewAllocationRow(key) ==
    [tally_session_id |-> key[1], weight_classification_id |-> key[2],
     required_bags |-> 0, allocated_bags_tally |-> 0,
     allocated_bags_dispatcher |-> 0, heads |-> Some(0)]

\* the ids of the committed rows of the pair key
RowsOfPair(table, key) ==
    {i \in DOMAIN table : /\ table[i].tally_session_id = key[1]
                          /\ table[i].weight_classification_id = key[2]}

\* an index on the pair that is not unique
idx_session_classification_not_unique(table, key) == TRUE

\* Index('idx_session_classification', ..., unique=True): TRUE when the
\* index lets a row of the pair key into the table
idx_session_classification(table, key) == RowsOfPair(table, key) = {}

\* the primary key of the next row of allocation_details
NextAllocationId ==
    LET used == DOMAIN allocation_details
                \cup {r.id : r \in UNION {txns[t].inserted : t \in TxnIds}}
    IN  IF used = {} THEN 1
        ELSE 1 + CHOOSE n \in used : \A m \in used : m <= n

\* the allocation as the handler of a create leaves it in memory
IncrementLoaded(a, role, heads_value) ==
    [a EXCEPT !.allocated_bags_tally = IF role = "tally" THEN @ + 1 ELSE @,
              !.allocated_bags_dispatcher =
                  IF role = "dispatcher" THEN @ + 1 ELSE @,
              !.heads = Some(HeadsOr0(@) + heads_value)]

\* the allocation as the handler of a delete leaves it in memory
DecrementLoaded(a, role, heads_value) ==
    [a EXCEPT !.allocated_bags_tally =
                  IF role = "tally" THEN Max0(@ - 1) ELSE @,
              !.allocated_bags_dispatcher =
                  IF role = "dispatcher" THEN Max0(@ - 1) ELSE @,
              !.heads = Some(Max0(HeadsOr0(@) - heads_value))]

\* the UPDATE of the flush: the columns whose value differs from the loaded
\* one are written, the others stay as the table has them
FlushUpdate(stored, loaded, changed) ==
    [c \in DOMAIN stored |->
        IF changed[c] # loaded[c] THEN changed[c] ELSE stored[c]]

\* the row of a loaded object, without its primary key
RowOf(a) == [c \in (DOMAIN a) \ {"id"} |-> a[c]]

\* the loaded object of row i
Loaded(table, i) ==
    [c \in (DOMAIN table[i]) \cup {"id"} |->
        IF c = "id" THEN i ELSE table[i][c]]

\* the table after the commit of a transaction that holds the loaded
\* object a and leaves it as changed: the row it inserted is added with
\* its values, a row it loaded is updated
CommitAllocation(t, a, changed) ==
    IF txns[t].inserted # None
    THEN PutKey(allocation_details, a.id, RowOf(changed))
    ELSE [allocation_details EXCEPT
              ![a.id] = FlushUpdate(@, RowOf(a), RowOf(changed))]

\* what no step of a transaction touches
ConcurrentFrame ==
    UNCHANGED <<wcs, sessions, nextSessionId, allocs, audits, pending>>

\* a create request arrives: route and handler find the session and the
\* classification (lines 20-33)
BeginCreate(t) ==
    \E p \in ConcurrentPairs, r \in Roles :
        /\ txns[t].pc = "idle"
        /\ nextEntryId + Cardinality({u \in TxnIds : txns[u].pc \in
               {"create_query", "create_flush", "create_commit"}})
             <= MaxEntries
        /\ txns' = [txns EXCEPT ![t] =
               [IdleTxn EXCEPT !.pc = "create_query",
                               !.log_entry = Some(EntryCreate(p, r, None))]]
        /\ UNCHANGED <<entries, nextEntryId, allocation_details, result>>
        /\ ConcurrentFrame

\* the query for the allocation of the pair (lines 36-39)
CreateQuery(t) ==
    /\ txns[t].pc = "create_query"
    /\ LET log_entry == Val(txns[t].log_entry)
           found == RowsOfPair(allocation_details,
                               <<log_entry.tally_session_id,
                                 log_entry.weight_classification_id>>)
       IN  \/ /\ found = {}
              /\ txns' = [txns EXCEPT ![t].pc = "create_flush"]
           \/ \E i \in found :
                  txns' = [txns EXCEPT
                               ![t].pc = "create_commit",
                               ![t].allocation =
                                   Some(Loaded(allocation_details, i))]
    /\ UNCHANGED <<entries, nextEntryId, allocation_details, result>>
    /\ ConcurrentFrame

\* db.add(allocation); db.flush() (lines 41-54): the INSERT waits while
\* another transaction holds an uncommitted row of the pair, and fails
\* with an IntegrityError, which ends the request, when the index refuses
\* the row
CreateFlush(t) ==
    /\ txns[t].pc = "create_flush"
    /\ LET log_entry == Val(txns[t].log_entry)
           key == <<log_entry.tally_session_id,
                    log_entry.weight_classification_id>>
           row == [id |-> NextAllocationId] @@ NewAllocationRow(key)
       IN  /\ \A u \in TxnIds \ {t} : \A r \in txns[u].inserted :
                  <<r.tally_session_id, r.weight_classification_id>> # key
           /\ IF idx_session_classification(allocation_details, key)
              THEN /\ txns' = [txns EXCEPT ![t].pc = "create_commit",
                                           ![t].allocation = Some(row),
                                           ![t].inserted = Some(row)]
                   /\ UNCHANGED result
              ELSE /\ txns' = [txns EXCEPT ![t] = IdleTxn]
                   /\ result' = "error"
    /\ UNCHANGED <<entries, nextEntryId, allocation_details>>
    /\ ConcurrentFrame

\* the increments in memory, db.add(db_log_entry) and db.commit() (lines
\* 56-81)
CreateCommit(t) ==
    /\ txns[t].pc = "create_commit"
    /\ LET log_entry == Val(txns[t].log_entry)
           a == Val(txns[t].allocation)
           heads == default_heads_of(log_entry.weight_classification_id)
           changed == IncrementLoaded(a, log_entry.role, heads)
       IN  /\ allocation_details' = CommitAllocation(t, a, changed)
           /\ entries' = PutKey(entries, nextEntryId,
                  [tally_session_id |-> log_entry.tally_session_id,
                   weight_classification_id |->
                       log_entry.weight_classification_id,
                   role |-> log_entry.role,
                   weight |-> log_entry.weight,
                   heads |-> heads,
                   notes |-> log_entry.notes,
                   original_session_id |-> None,
                   transferred_at |-> None])
    /\ nextEntryId' = nextEntryId + 1
    /\ txns' = [txns EXCEPT ![t] = IdleTxn]
    /\ result' = "ok"
    /\ ConcurrentFrame

\* a delete request arrives and loads the entry and its allocation (lines
\* 117-129)
DeleteQuery(t) ==
    \E entry_id \in EntryIds :
        LET e == entries[entry_id]
            found == RowsOfPair(allocation_details,
                         <<e.tally_session_id, e.weight_classification_id>>)
        IN  /\ txns[t].pc = "idle"
            /\ \/ /\ found = {}
                  /\ txns' = [txns EXCEPT ![t] =
                         [IdleTxn EXCEPT !.pc = "delete_commit",
                                         !.log_entry = Some(e),
                                         !.entry_id = entry_id]]
               \/ \E i \in found :
                      txns' = [txns EXCEPT ![t] =
                          [IdleTxn EXCEPT
                               !.pc = "delete_commit",
                               !.log_entry = Some(e),
                               !.entry_id = entry_id,
                               !.allocation =
                                   Some(Loaded(allocation_details, i))]]
            /\ UNCHANGED <<entries, nextEntryId, allocation_details, result>>
            /\ ConcurrentFrame

\* the decrements in memory, db.delete(log_entry) and db.commit() (lines
\* 131-145); the DELETE of a row that another transaction has deleted
\* fails the commit
DeleteCommit(t) ==
    /\ txns[t].pc = "delete_commit"
    /\ LET e == Val(txns[t].log_entry)
           entry_id == txns[t].entry_id
       IN  IF entry_id \notin EntryIds
           THEN /\ result' = "error"
                /\ UNCHANGED <<entries, allocation_details>>
           ELSE /\ result' = "ok"
                /\ entries' = DropKey(entries, entry_id)
                /\ allocation_details' =
                       IF txns[t].allocation = None THEN allocation_details
                       ELSE LET a == Val(txns[t].allocation)
                            IN  CommitAllocation(t, a,
                                    DecrementLoaded(a, e.role, e.heads))
    /\ txns' = [txns EXCEPT ![t] = IdleTxn]
    /\ UNCHANGED nextEntryId
    /\ ConcurrentFrame

\* the ledger after POST /tally-sessions/1/allocations for the pair
\* <<1, 1>>: one allocation row, no log entry, no open transaction
InitConcurrent ==
    /\ wcs = LedgerWcs
    /\ sessions = LedgerSessions
    /\ nextSessionId = Len(LedgerSessions) + 1
    /\ entries = <<>>
    /\ nextEntryId = 1
    /\ allocs = <<>>
    /\ audits = <<>>
    /\ pending = None
    /\ allocation_details = <<NewAllocationRow(<<1, 1>>)>>
    /\ txns = [t \in TxnIds |-> IdleTxn]
    /\ result = "ok"

NextConcurrent ==
    \/ \E t \in TxnIds : BeginCreate(t)
    \/ \E t \in TxnIds : CreateQuery(t)
    \/ \E t \in TxnIds : CreateFlush(t)
    \/ \E t \in TxnIds : CreateCommit(t)
    \/ \E t \in TxnIds : DeleteQuery(t)
    \/ \E t \in TxnIds : DeleteCommit(t)

SpecConcurrent == InitConcurrent /\ [][NextConcurrent]_vars


(***************************************************************************)
(* Properties of the ledger.                                               *)
(***************************************************************************)
\* the log entries of the pair (session, classification) key
EntriesOf(key) ==
    {i \in EntryIds : /\ entries[i].tally_session_id = key[1]
                      /\ entries[i].weight_classification_id = key[2]}

RoleCount(key, role) ==
    Cardinality({i \in EntriesOf(key) : entries[i].role = role})

RECURSIVE SumHeads(_)
SumHeads(ids) ==
    IF ids = {} THEN 0
    ELSE LET i == CHOOSE x \in ids : TRUE
         IN  entries[i].heads + SumHeads(ids \ {i})

\* C1: after any sequence of create, update, delete and transfer requests
\* from the empty ledger, every allocation row holds, as
\* allocated_bags_tally and allocated_bags_dispatcher, the number of TALLY
\* and of DISPATCHER log entries of its session and classification.
C1_CountsConsistent ==
    \A key \in AllocKeys :
        /\ allocs[key].allocated_bags_tally = RoleCount(key, "tally")
        /\ allocs[key].allocated_bags_dispatcher = RoleCount(key, "dispatcher")

\* a row with one entry of each role that a transfer brought, next to a
\* row that the entries left
C1_Witness ==
    \E key \in AllocKeys, left \in AllocKeys :
        /\ allocs[key].allocated_bags_tally = 1
        /\ allocs[key].allocated_bags_dispatcher = 1
        /\ \A i \in EntriesOf(key) : entries[i].original_session_id = Some(left[1])
        /\ left # key
        /\ allocs[left].allocated_bags_tally = 0
        /\ allocs[left].allocated_bags_dispatcher = 0

\* C2: after any sequence of create, update and delete requests (and
\* transfers) from the empty ledger, every allocation row holds, as heads,
\* the sum of the stored heads of the log entries of its session and
\* classification, TALLY and DISPATCHER together.
C2_HeadsConsistent ==
    \A key \in AllocKeys : allocs[key].heads = Some(SumHeads(EntriesOf(key)))

\* a row with a TALLY and a DISPATCHER entry of different heads, one of
\* them not the default of the classification, next to a row whose heads
\* went back to zero
C2_Witness ==
    \E key \in AllocKeys, left \in AllocKeys :
        /\ \E i \in EntriesOf(key), j \in EntriesOf(key) :
               /\ entries[i].role = "tally"
               /\ entries[j].role = "dispatcher"
               /\ entries[i].heads # entries[j].heads
               /\ entries[j].heads # default_heads_of(key[2])
        /\ left # key
        /\ nextEntryId > 1
        /\ allocs[left].heads = Some(0)

NonNegative(row) ==
    /\ row.required_bags >= 0
    /\ row.allocated_bags_tally >= 0
    /\ row.allocated_bags_dispatcher >= 0
    /\ (row.heads # None => Val(row.heads) >= 0)

\* C3: in every state that the log entry handlers, the bulk resets and the
\* creation and update of allocation rows reach, required_bags,
\* allocated_bags_tally, allocated_bags_dispatcher and heads of every
\* allocation row are at least 0 (heads may be null); and taking an entry
\* of any role and any heads from a row leaves each quantity at the
\* difference, or at 0 when the difference is negative.
C3_NonNegative ==
    /\ \A key \in AllocKeys : NonNegative(allocs[key])
    /\ \A key \in AllocKeys, role \in Roles, heads_value \in 0..3 :
           LET a == allocs[key]
               d == DecrementAllocation(allocs, key, role, heads_value)[key]
               less(x, n) == IF x - n < 0 THEN 0 ELSE x - n
           IN  /\ d.required_bags = a.required_bags
               /\ d.allocated_bags_tally =
                      less(a.allocated_bags_tally, IF role = "tally" THEN 1 ELSE 0)
               /\ d.allocated_bags_dispatcher =
                      less(a.allocated_bags_dispatcher,
                           IF role = "dispatcher" THEN 1 ELSE 0)
               /\ d.heads = Some(less(HeadsOr0(a.heads), heads_value))

\* a row with a requirement whose counts and heads went back to zero when
\* its entries were deleted, after a request with a negative quantity was
\* refused
C3_Witness ==
    /\ result = "invalid"
    /\ nextEntryId > 1
    /\ \E key \in AllocKeys :
           /\ EntriesOf(key) = {}
           /\ allocs[key].required_bags > 0
           /\ allocs[key].allocated_bags_tally = 0
           /\ allocs[key].allocated_bags_dispatcher = 0
           /\ allocs[key].heads = Some(0)

\* the plant of the session that holds entry i
PlantOfEntry(i) == sessions[entries[i].tally_session_id].plant_id

\* a transfer request fails a precondition: no id, an id without entry, an
\* entry already in the target, sources in two plants, a target that is
\* missing, in another plant or not ongoing, a classification that is
\* missing or in another plant
TransferPreconditionFails(entry_ids, target_session_id) ==
    LET found == IdsOf(entry_ids) \cap EntryIds
    IN  \/ entry_ids = <<>>
        \/ \E i \in IdsOf(entry_ids) : i \notin EntryIds
        \/ \E i \in found : entries[i].tally_session_id = target_session_id
        \/ \E i \in found, j \in found : PlantOfEntry(i) # PlantOfEntry(j)
        \/ target_session_id \notin SessionIds
        \/ \E i \in found :
               sessions[target_session_id].plant_id # PlantOfEntry(i)
        \/ sessions[target_session_id].status # "ongoing"
        \/ \E i \in found :
               \/ entries[i].weight_classification_id \notin WcIds
               \/ wcs[entries[i].weight_classification_id].plant_id
                      # PlantOfEntry(i)

\* C4: a transfer request that fails a precondition is answered with an
\* error, and the tables it would commit are the tables as they are: every
\* log entry and every allocation row, with its existence, is unchanged.
C4_TransferAtomic ==
    \A entry_ids \in TransferLists, target_session_id \in 0..3 :
        TransferPreconditionFails(entry_ids, target_session_id) =>
            LET post == transfer_tally_log_entries(entry_ids, target_session_id)
            IN  /\ post.result = "error"
                /\ post.entries = entries
                /\ post.allocs = allocs
                /\ post.nextEntryId = nextEntryId

\* a request was refused while session 2 is not ongoing, session 1 holds an
\* entry and a requirement, and plant 2 holds an entry
C4_Witness ==
    /\ result = "error"
    /\ sessions[2].status # "ongoing"
    /\ <<1, 1>> \in AllocKeys
    /\ allocs[<<1, 1>>].required_bags = 1
    /\ allocs[<<1, 1>>].allocated_bags_tally = 1
    /\ \E i \in EntryIds : PlantOfEntry(i) = 2

\* C10: no request adds a log entry to a session that is completed or
\* cancelled: a session that holds, after a step, an entry it did not hold
\* before is ongoing.
C10_OnlyOngoingGain ==
    [][\A s \in SessionIds :
          (\E i \in DOMAIN entries' :
              /\ entries'[i].tally_session_id = s
              /\ (i \in EntryIds => entries[i].tally_session_id # s))
          => sessions[s].status = "ongoing"]_vars

\* required_bags of the pair key in an allocation table, 0 without a row
RequiredOf(al, key) == IF key \in DOMAIN al THEN al[key].required_bags ELSE 0

\* the TALLY entries of a request in the group key
TallyInGroup(entry_ids, key) ==
    {i \in IdsOf(entry_ids) \cap EntriesOf(key) : entries[i].role = "tally"}

\* what the group key gives: the smaller of its TALLY entries in the
\* request and its requirement
GroupGives(entry_ids, key) ==
    LET n == Cardinality(TallyInGroup(entry_ids, key))
        required == RequiredOf(allocs, key)
    IN  IF n <= required THEN n ELSE required

\* what the groups of the sessions ss give together for classification c
RECURSIVE GroupsGive(_, _, _)
GroupsGive(entry_ids, ss, c) ==
    IF ss = {} THEN 0
    ELSE LET s == CHOOSE x \in ss : TRUE
         IN  GroupGives(entry_ids, <<s, c>>) + GroupsGive(entry_ids, ss \ {s}, c)

\* C5: a successful transfer takes from the allocation row of each group
\* (source session, classification) the smaller of the number of TALLY
\* entries of the group in the request and the row's required_bags, and
\* adds to the row of (target session, classification) what the groups of
\* that classification give; DISPATCHER entries give nothing, and no other
\* required_bags changes.
C5_RequiredBagsCap ==
    \A entry_ids \in TransferLists, target_session_id \in SessionIds :
        LET post == transfer_tally_log_entries(entry_ids, target_session_id)
        IN  post.result = "ok" =>
                \A s \in SessionIds, c \in WcIds :
                    RequiredOf(post.allocs, <<s, c>>) =
                        IF s = target_session_id
                        THEN RequiredOf(allocs, <<s, c>>)
                                 + GroupsGive(entry_ids,
                                              SessionIds \ {target_session_id}, c)
                        ELSE RequiredOf(allocs, <<s, c>>)
                                 - GroupGives(entry_ids, <<s, c>>)

\* a TALLY and a DISPATCHER entry came together from a row that required
\* 3: the row is left with 2 and the target holds 1
C5_Witness ==
    \E source \in AllocKeys, target \in AllocKeys :
        /\ source # target
        /\ source[2] = target[2]
        /\ \E i \in EntriesOf(target), j \in EntriesOf(target) :
               /\ entries[i].role = "tally"
               /\ entries[j].role = "dispatcher"
               /\ entries[i].original_session_id = Some(source[1])
               /\ entries[j].original_session_id = Some(source[1])
        /\ allocs[source].required_bags = 2
        /\ allocs[target].required_bags = 1

(***************************************************************************)
(* Properties of the session numbers.                                      *)
(***************************************************************************)
\* the sessions of the customer that were created before session i
EarlierOf(i) ==
    {j \in SessionIds : j < i /\ sessions[j].customer_id = sessions[i].customer_id}

\* the largest of a set of numbers, 0 for the empty set
Largest(numbers) ==
    IF numbers = {} THEN 0 ELSE CHOOSE n \in numbers : \A m \in numbers : m <= n

\* C11: a create gives the new session the number (largest number among
\* the customer's sessions, 0 if it has none) + 1; with no deletion the k-th
\* session created for a customer has number k, whatever sessions the other
\* customers have.
C11_SessionNumbering ==
    /\ \A tally_session \in SessionCreateReqs :
           LET post == create_tally_session(tally_session)
               own == {i \in SessionIds :
                          sessions[i].customer_id = tally_session.customer_id}
           IN  /\ DOMAIN post = SessionIds \cup {nextSessionId}
               /\ \A i \in SessionIds : post[i] = sessions[i]
               /\ post[nextSessionId].session_number =
                      Largest({sessions[i].session_number : i \in own}) + 1
    /\ \A i \in SessionIds :
           sessions[i].session_number = Cardinality(EarlierOf(i)) + 1

\* the third session of customer 1 was created after sessions of customer 2
C11_Witness ==
    /\ SessionIds = 1..4
    /\ sessions[2].customer_id = 2
    /\ sessions[4].customer_id = 1
    /\ sessions[4].session_number = 3

\* C12: a session number that a session of a customer once had is never
\* the number of a session of the customer that is created later, also
\* when the session that had it is deleted: once a session is deleted, the
\* number that the next create gives a session of its customer is not the
\* number of the deleted session.
C12_NumbersNotReused ==
    [][\A i \in SessionIds, tally_session \in SessionCreateReqs :
          (/\ i \notin DOMAIN sessions'
           /\ sessions[i].customer_id = tally_session.customer_id)
          => (create_tally_session(tally_session)[nextSessionId].session_number)'
                 # sessions[i].session_number]_vars

(***************************************************************************)
(* Properties of the audit trail.                                          *)
(***************************************************************************)
\* C13: the edit of an update and the audit row of the edit are committed
\* together: in no committed state do the log entry and the allocation rows
\* show an edit whose audit row is not in the audit trail.
C13_EditWithAuditRow ==
    \A row \in pending : \E k \in DOMAIN audits : audits[k] = row

\* the column of a log entry that the field of a changes map is about
StoredField(row, f) ==
    CASE f = "weight_classification" -> row.weight_classification_id
      [] f = "tally_session" -> row.tally_session_id
      [] OTHER -> row[f]

\* C14: the changes map of an update has a field exactly when the value the
\* entry stores after the update differs from the value it stored before;
\* when the classification changes without heads in the request and the
\* new default differs from the old heads, the map has heads, old and new.
C14_ChangesAreDifferences ==
    \A entry_id \in EntryIds, upd \in AuditUpdateReqs :
        LET post == update_tally_log_entry_commit(entry_id, upd)
            changes == update_changes(entry_id, upd)
            before == entries[entry_id]
            after == post.entries[entry_id]
        IN  post.result = "ok" =>
                /\ DOMAIN changes =
                       {f \in AuditFields :
                           StoredField(after, f) # StoredField(before, f)}
                /\ "heads" \in DOMAIN changes =>
                       changes["heads"] =
                           [old |-> before.heads, new |-> after.heads]

\* update requests that are refused among those that are served: a session
\* or a classification that is missing or of the other plant, negative
\* heads, a role of null
AuditProbeReqs ==
    AuditUpdateReqs \cup EntryUpdateReqs({0, 3}, {0, 3})
    \cup {EntryUpdate({"heads"}, 0, 0, "tally", Some(-1)),
          [EntryUpdate({}, 0, 0, "tally", None) EXCEPT !.set = {"role"}]}

\* every row of the table aud2 is a row of the table aud1
NoRowAdded(aud1, aud2) ==
    /\ Len(aud2) <= Len(aud1)
    /\ \A k \in DOMAIN aud2 : \E j \in DOMAIN aud1 : aud1[j] = aud2[k]

\* C15: an update that succeeds with a non-empty changes map appends one
\* audit row, with every changed field and the editing user; an update with
\* an empty map or a refused update appends none, and neither does a
\* create, a delete or a transfer.
C15_OneAuditRow ==
    /\ \A entry_id \in 0..MaxEntries, upd \in AuditProbeReqs,
          user_id \in UserIds :
           LET post == update_tally_log_entry(entry_id, upd, user_id)
           IN  IF post.result = "ok"
                  /\ DOMAIN update_changes(entry_id, upd) # {}
               THEN post.audits =
                        audits \o <<[tally_log_entry_id |-> entry_id,
                                     user_id |-> user_id,
                                     changes |-> update_changes(entry_id, upd)]>>
               ELSE post.audits = audits
    /\ \A body \in EntryCreateBodies(AuditCreatePairs) :
           create_tally_log_entry(TallyLogEntryCreate_parse(body)).audits = audits
    /\ \A entry_id \in 0..MaxEntries :
           NoRowAdded(audits, delete_tally_log_entry(entry_id).audits)
    /\ \A entry_ids \in TransferLists, target_session_id \in 0..3 :
           transfer_tally_log_entries(entry_ids, target_session_id).audits
               = audits

\* user 2 changed the classification and the heads of an entry in one
\* request, and the trail has the one row of that edit
C15_Witness ==
    /\ Len(audits) = 1
    /\ audits[1].user_id = 2
    /\ DOMAIN audits[1].changes = {"heads", "weight_classification"}
    /\ pending = None

(***************************************************************************)
(* Properties of the heads of a log entry.                                 *)
(***************************************************************************)
\* the default_heads of the classification, 15 when it has none
ClassificationHeads(c) ==
    IF wcs[c].default_heads = None THEN 15 ELSE Val(wcs[c].default_heads)

\* the heads of the allocation row of key in the table al, 0 without a row
AllocationHeads(al, key) ==
    IF key \in DOMAIN al THEN HeadsOr0(al[key].heads) ELSE 0

\* C16: a create request without heads stores the default_heads of the
\* classification (15 when it has none) on the new entry and adds that
\* amount to the heads of the allocation row; heads that the request
\* supplies are stored as given.
C16_CreateHeadsDefault ==
    \A body \in EntryCreateBodies(AuditCreatePairs) :
        LET post == create_tally_log_entry(TallyLogEntryCreate_parse(body))
            c == body.weight_classification_id
            key == <<body.tally_session_id, c>>
            expected == IF "heads" \in body.set /\ body.heads # None
                        THEN Val(body.heads)
                        ELSE ClassificationHeads(c)
        IN  post.result = "ok" =>
                /\ post.entries[nextEntryId].heads = expected
                /\ AllocationHeads(post.allocs, key)
                       = AllocationHeads(allocs, key) + expected

\* the heads of the row of new_key once the entry before has left its row
HeadsAfterLeaving(before, new_key) ==
    IF new_key = <<before.tally_session_id, before.weight_classification_id>>
    THEN Max0(AllocationHeads(allocs, new_key) - before.heads)
    ELSE AllocationHeads(allocs, new_key)

\* the heads that an update stores when null counts as a value not supplied
HeadsAsStated(before, after, upd) ==
    IF Sent(upd, "heads") /\ upd.heads # None THEN Val(upd.heads)
    ELSE IF after.weight_classification_id # before.weight_classification_id
    THEN ClassificationHeads(after.weight_classification_id)
    ELSE before.heads

\* the heads that an update stores when null asks for the default
HeadsAsAmended(before, after, upd) ==
    IF Sent(upd, "heads") /\ upd.heads # None THEN Val(upd.heads)
    ELSE IF \/ Sent(upd, "heads")
            \/ after.weight_classification_id # before.weight_classification_id
    THEN ClassificationHeads(after.weight_classification_id)
    ELSE before.heads

\* C17 as stated: after an update the entry stores the supplied heads, else
\* the default_heads of the new classification if the classification
\* changed, else the heads it had; that amount is added to the heads of the
\* new allocation row.
C17_UpdateHeadsAsStated ==
    \A entry_id \in EntryIds, upd \in AuditUpdateReqs :
        LET post == update_tally_log_entry_commit(entry_id, upd)
            before == entries[entry_id]
            after == post.entries[entry_id]
            new_key == <<after.tally_session_id, after.weight_classification_id>>
        IN  post.result = "ok" =>
                /\ after.heads = HeadsAsStated(before, after, upd)
                /\ AllocationHeads(post.allocs, new_key)
                       = HeadsAfterLeaving(before, new_key) + after.heads

\* C17: after an update the entry stores the supplied heads when the
\* request has a value for heads; the default_heads of the entry's (new or
\* unchanged) classification when the request has heads null or, without
\* heads, changes the classification; else the heads it had; that amount
\* is added to the heads of the new allocation row.
C17_UpdateHeads ==
    \A entry_id \in EntryIds, upd \in AuditUpdateReqs :
        LET post == update_tally_log_entry_commit(entry_id, upd)
            before == entries[entry_id]
            after == post.entries[entry_id]
            new_key == <<after.tally_session_id, after.weight_classification_id>>
        IN  post.result = "ok" =>
                /\ after.heads = HeadsAsAmended(before, after, upd)
                /\ AllocationHeads(post.allocs, new_key)
                       = HeadsAfterLeaving(before, new_key) + after.heads

\* an update with heads null took an entry of classification 1 from other
\* heads to the default of its classification
C17_Witness ==
    /\ Len(audits) = 1
    /\ DOMAIN audits[1].changes = {"heads"}
    /\ audits[1].changes["heads"].new = 1
    /\ audits[1].tally_log_entry_id \in EntryIds
    /\ entries[audits[1].tally_log_entry_id].heads = 1

(***************************************************************************)
(* Create followed by delete.                                              *)
(***************************************************************************)
\* the aggregates of the pair key agree with its log entries, or the pair
\* has no allocation row
AggregatesConsistent(key) ==
    key \in AllocKeys =>
        /\ allocs[key].allocated_bags_tally = RoleCount(key, "tally")
        /\ allocs[key].allocated_bags_dispatcher = RoleCount(key, "dispatcher")
        /\ allocs[key].heads = Some(SumHeads(EntriesOf(key)))

RoundTripBodies ==
    {EntryCreateBody(set, p, r, h) :
        <<set, p, r, h>> \in
            {{}, {"heads"}} \X ((1..2) \X (1..2)) \X Roles \X OptHeads}

\* C18: where the aggregates of a pair agree with its entries, a create for
\* the pair followed by the delete of the created entry leaves the
\* allocation row of the pair with the counts and the heads it had (0 and
\* 0 in a row that the create added), and every other row as it was.
C18_CreateDeleteRoundTrip ==
    \A body \in RoundTripBodies :
        LET key == <<body.tally_session_id, body.weight_classification_id>>
            created == create_tally_log_entry(TallyLogEntryCreate_parse(body))
            deleted == delete_tally_log_entry_in(created.entries, created.allocs,
                                                 created.audits, nextEntryId)
        IN  (created.result = "ok" /\ AggregatesConsistent(key)) =>
                /\ deleted.result = "ok"
                /\ deleted.entries = entries
                /\ DOMAIN deleted.allocs = AllocKeys \cup {key}
                /\ \A k \in AllocKeys : deleted.allocs[k] = allocs[k]
                /\ key \notin AllocKeys =>
                       deleted.allocs[key] =
                           [required_bags |-> 0, allocated_bags_tally |-> 0,
                            allocated_bags_dispatcher |-> 0, heads |-> Some(0)]

\* an entry was created and deleted: its pair has the row that the create
\* added, back at zero, and a row with a requirement kept its entry
C18_Witness ==
    /\ nextEntryId = 3
    /\ EntryIds = {1}
    /\ <<2, 1>> \in AllocKeys
    /\ allocs[<<2, 1>>] = [required_bags |-> 0, allocated_bags_tally |-> 0,
                           allocated_bags_dispatcher |-> 0, heads |-> Some(0)]
    /\ <<1, 1>> \in AllocKeys
    /\ allocs[<<1, 1>>].required_bags = 1
    /\ allocs[<<1, 1>>].allocated_bags_tally = 1
    /\ entries[1].original_session_id = None

(***************************************************************************)
(* The origin of a transferred entry.                                      *)
(***************************************************************************)
\* C19: after any sequence of creates, updates (also of tally_session_id)
\* and transfers, a log entry whose original_session_id is set has there
\* the session it was created in.  Every entry is created in session
\* CreationSession.
C19_OriginIsCreationSession ==
    \A i \in EntryIds :
        entries[i].original_session_id # None
            => entries[i].original_session_id = Some(CreationSession)

(***************************************************************************)
(* The validation of an update.                                            *)
(***************************************************************************)
\* update requests that name a session, a classification or both
GuardProbeReqs ==
    {EntryUpdate(set, sc[1], sc[2], "tally", None) :
        <<set, sc>> \in
            {{"tally_session_id"}, {"weight_classification_id"},
             {"tally_session_id", "weight_classification_id"}}
            \X ((0..3) \X (0..3))}

\* the request gives the entry a classification that does not exist or is
\* of another plant than the entry's classification
BadNewClassification(before, upd) ==
    /\ Sent(upd, "weight_classification_id")
    /\ upd.weight_classification_id # Some(before.weight_classification_id)
    /\ \A c \in upd.weight_classification_id :
           \/ c \notin WcIds
           \/ wcs[c].plant_id # wcs[before.weight_classification_id].plant_id

\* the request gives the entry a session that does not exist, is not
\* ongoing or is of another plant than the entry's session
BadNewSession(before, upd) ==
    /\ Sent(upd, "tally_session_id")
    /\ upd.tally_session_id # Some(before.tally_session_id)
    /\ \A t \in upd.tally_session_id :
           \/ t \notin SessionIds
           \/ sessions[t].status # "ongoing"
           \/ sessions[t].plant_id # sessions[before.tally_session_id].plant_id

\* C20: an update is refused when its new classification does not exist or
\* is of another plant, and when its new session does not exist, is not
\* ongoing or is of another plant; the log entries, the allocation rows and
\* the audit trail are then as before the request.
C20_UpdateValidation ==
    \A entry_id \in EntryIds, upd \in GuardProbeReqs, user_id \in UserIds :
        LET post == update_tally_log_entry(entry_id, upd, user_id)
            before == entries[entry_id]
        IN  (BadNewClassification(before, upd) \/ BadNewSession(before, upd)) =>
                /\ post.result = "error"
                /\ post.entries = entries
                /\ post.allocs = allocs
                /\ post.audits = audits
                /\ post.nextEntryId = nextEntryId

\* an update was refused while an entry of plant 1 had an audit row, a
\* session of its plant was closed and plant 2 had an entry
C20_Witness ==
    /\ result = "error"
    /\ Len(audits) = 1
    /\ \E i \in EntryIds : PlantOfEntry(i) = 1 /\ audits[1].tally_log_entry_id = i
    /\ \E i \in EntryIds : PlantOfEntry(i) = 2
    /\ \E t \in SessionIds : sessions[t].plant_id = 1 /\ sessions[t].status = "completed"
    /\ pending = None


(***************************************************************************)
(* The bulk reset of a session.                                            *)
(***************************************************************************)
\* the allocated_bags column of a role
CountField(role) ==
    IF role = "tally" THEN "allocated_bags_tally"
    ELSE "allocated_bags_dispatcher"

OtherRole(role) == IF role = "tally" THEN "dispatcher" ELSE "tally"

\* C21: the reset of one role on a session that has allocation rows deletes
\* every log entry of the role in the session and writes 0 to the role's
\* count on every allocation row of the session; the session's entries of
\* the other role, the other count, the heads and the required_bags of the
\* session's rows, and the entries and rows of other sessions stay as they
\* are.
C21_ResetEffectAndFrame ==
    \A session_id \in SessionIds, role \in Roles :
        LET post == reset_allocated_bags_for_session(
                        session_id, role = "tally", role = "dispatcher")
            gone == {i \in EntryIds : /\ entries[i].tally_session_id = session_id
                                        /\ entries[i].role = role}
        IN  (\E k \in AllocKeys : k[1] = session_id) =>
                /\ post.result = "ok"
                /\ DOMAIN post.entries = EntryIds \ gone
                /\ \A i \in EntryIds \ gone : post.entries[i] = entries[i]
                /\ DOMAIN post.allocs = AllocKeys
                /\ \A k \in AllocKeys :
                       IF k[1] = session_id
                       THEN /\ post.allocs[k][CountField(role)] = 0
                            /\ post.allocs[k][CountField(OtherRole(role))] =
                                   allocs[k][CountField(OtherRole(role))]
                            /\ post.allocs[k].heads = allocs[k].heads
                            /\ post.allocs[k].required_bags =
                                   allocs[k].required_bags
                       ELSE post.allocs[k] = allocs[k]

\* a reset of the TALLY role has acted on a pair that had entries of both
\* roles: the DISPATCHER entry is there, the TALLY count is 0, and the heads
\* of the row still hold the heads of the deleted entry
C21_Witness ==
    \E k \in AllocKeys :
        /\ allocs[k].allocated_bags_tally = 0
        /\ allocs[k].allocated_bags_dispatcher = 1
        /\ RoleCount(k, "dispatcher") = 1
        /\ RoleCount(k, "tally") = 0
        /\ HeadsOr0(allocs[k].heads) > SumHeads(EntriesOf(k))
        /\ result = "ok"


(***************************************************************************)
(* The rows of the allocation table.  The table of the model has one row   *)
(* per pair; a handler that wrote a row onto a pair that has a row would   *)
(* leave two rows of the pair in the database, and one row fewer here.     *)
(***************************************************************************)
AllocationProbeCreates ==
    {AllocationCreate(key, 0, 0, 0, Some(0)) : key \in AllocationPairs}

\* the rows of al are the rows of allocs and one row per pair of added
RowsKeptAndAdded(al, added) ==
    /\ DOMAIN al = AllocKeys \cup added
    /\ Cardinality(DOMAIN al) = Cardinality(AllocKeys) + Cardinality(added)

\* the pairs that the log entries ids have once they are in session
\* target_session_id
PairsIn(ids, target_session_id) ==
    {<<target_session_id, entries[i].weight_classification_id>> : i \in ids}

\* C22: no handler leaves two allocation rows of one pair.  A row is added
\* by create_allocation_detail and by the create, update and transfer of
\* log entries only for a pair that has no row; update_allocation_detail
\* moves a row only to a pair that has no row, and no row disappears under
\* it; delete_allocation_detail removes the row of its pair and no other.
C22_AllocationKeyUnique ==
    /\ \A body \in AllocationProbeCreates :
           LET post == create_allocation_detail(body)
               key == <<body.tally_session_id, body.weight_classification_id>>
           IN  post.result = "ok" =>
                   /\ key \notin AllocKeys
                   /\ RowsKeptAndAdded(post.allocs, {key})
    /\ \A key \in AllocationPairs, upd \in AllocationUpdateReqs :
           LET post == update_allocation_detail(key, upd)
               new_key == <<key[1], Val(UpdateGet(upd, "weight_classification_id",
                                                    key[2]))>>
           IN  post.result = "ok" =>
                   /\ new_key # key => new_key \notin AllocKeys
                   /\ Cardinality(DOMAIN post.allocs) = Cardinality(AllocKeys)
                   /\ DOMAIN post.allocs = (AllocKeys \ {key}) \cup {new_key}
    /\ \A key \in AllocationPairs :
           LET post == delete_allocation_detail(key)
           IN  post.result = "ok" => DOMAIN post.allocs = AllocKeys \ {key}
    /\ \A log_entry \in LedgerCreateReqs :
           LET post == create_tally_log_entry(log_entry)
               key == <<log_entry.tally_session_id,
                        log_entry.weight_classification_id>>
           IN  post.result = "ok" =>
                   RowsKeptAndAdded(post.allocs, {key} \ AllocKeys)
    /\ \A entry_id \in EntryIds, upd \in EntryUpdateReqs(1..2, 1..2) :
           LET post == update_tally_log_entry_commit(entry_id, upd)
               e == post.entries[entry_id]
               key == <<e.tally_session_id, e.weight_classification_id>>
           IN  post.result = "ok" =>
                   RowsKeptAndAdded(post.allocs, {key} \ AllocKeys)
    /\ \A entry_ids \in TransferLists, target_session_id \in 1..2 :
           LET post == transfer_tally_log_entries(entry_ids, target_session_id)
           IN  post.result = "ok" =>
                   RowsKeptAndAdded(post.allocs,
                       PairsIn(IdsOf(entry_ids), target_session_id) \ AllocKeys)

\* every pair of sessions 1 and 2 has its row: the rows of session 2 were
\* added by log entry handlers, a row of session 1 has a count that its
\* create request stated, and an update of a row was refused
C22_Witness ==
    /\ AllocKeys = AllocationPairs
    /\ \E k \in AllocKeys :
           k[1] = 1 /\ allocs[k].allocated_bags_tally = 1 /\ EntriesOf(k) = {}
    /\ result = "error"


(***************************************************************************)
(* Overlapping creates that both find no allocation row of their pair.     *)
(***************************************************************************)
\* at most one committed allocation row per pair
OneRowPerPair ==
    \A key \in ConcurrentPairs :
        Cardinality(RowsOfPair(allocation_details, key)) <= 1

\* C23: when create requests for one pair overlap and each finds no
\* allocation row, the unique index lets one insert commit: no step leaves
\* two rows of one pair in the table, and the step at which the index
\* refuses the insert of a request ends the request with an error and
\* leaves the log entries and the allocation rows as they were.
C23_AutoCreateRace ==
    [][/\ OneRowPerPair'
       /\ \A t \in TxnIds :
              (txns[t].pc = "create_flush" /\ txns'[t].pc = "idle") =>
                  /\ result' = "error"
                  /\ entries' = entries
                  /\ nextEntryId' = nextEntryId
                  /\ allocation_details' = allocation_details]_vars

\* two creates for the pair <<1, 2>> raced: one committed its row and its
\* entry, the index refused the insert of the other, and no entry was ever
\* deleted
C23_Witness ==
    /\ result = "error"
    /\ \A t \in TxnIds : txns[t].pc = "idle"
    /\ nextEntryId = 2
    /\ EntryIds = {1}
    /\ entries[1].weight_classification_id = 2
    /\ \E i \in RowsOfPair(allocation_details, <<1, 2>>) :
           allocation_details[i].allocated_bags_tally
               + allocation_details[i].allocated_bags_dispatcher = 1


(***************************************************************************)
(* The update of an allocation row.                                        *)
(***************************************************************************)
\* the request gives the row of key another classification
ChangesClassification(key, upd) ==
    /\ Sent(upd, "weight_classification_id")
    /\ upd.weight_classification_id # Some(key[2])

\* the pair of the row of key after the request upd
PairAfter(key, upd) ==
    <<key[1], Val(UpdateGet(upd, "weight_classification_id", key[2]))>>

\* C24: an update of an allocation row that changes the classification is
\* refused, and leaves the allocation rows and the log entries as they
\* were, when the row's pair has a log entry or when the session has a row
\* of the new classification; and an update that succeeds leaves the
\* allocated_bags_tally and allocated_bags_dispatcher of the row as they
\* were, as it leaves every other row.
C24_RekeyGuard ==
    \A key \in AllocKeys, upd \in AllocationUpdateReqs :
        LET post == update_allocation_detail(key, upd)
        IN  /\ (/\ ChangesClassification(key, upd)
                /\ \/ EntriesOf(key) # {}
                   \/ \E c \in upd.weight_classification_id :
                          <<key[1], c>> \in AllocKeys)
               => /\ post.result # "ok"
                  /\ post.allocs = allocs
                  /\ post.entries = entries
            /\ post.result # "ok" => post.allocs = allocs
            /\ post.result = "ok" =>
                   LET new_key == PairAfter(key, upd)
                   IN  /\ post.entries = entries
                       /\ post.allocs[new_key].allocated_bags_tally =
                              allocs[key].allocated_bags_tally
                       /\ post.allocs[new_key].allocated_bags_dispatcher =
                              allocs[key].allocated_bags_dispatcher
                       /\ \A k \in AllocKeys \ {key} :
                              post.allocs[k] = allocs[k]

\* a row was given the classification 2: its count is the one its create
\* request stated for the pair <<1, 1>>, and the pair has no log entry,
\* while a log entry holds the row of another pair in place
C24_Witness ==
    /\ <<1, 2>> \in AllocKeys
    /\ allocs[<<1, 2>>].allocated_bags_tally = 1
    /\ EntriesOf(<<1, 2>>) = {}
    /\ \E k \in AllocKeys : EntriesOf(k) # {}
    /\ result = "ok"


(***************************************************************************)
(* Overlapping mutations of one allocation row.                            *)
(***************************************************************************)
\* the log entries of the pair of the committed row i
EntriesOfRow(i) ==
    EntriesOf(<<allocation_details[i].tally_session_id,
                allocation_details[i].weight_classification_id>>)

\* C25: when log entry mutations of one allocation row overlap, each
\* reading the row, computing the new count and heads in memory and then
\* committing, the row holds after the commits, as allocated_bags_tally and
\* allocated_bags_dispatcher, the number of TALLY and of DISPATCHER entries
\* of its pair and, as heads, the sum of their heads: no increment is lost.
C25_NoLostUpdate ==
    (\A t \in TxnIds : txns[t].pc = "idle") =>
        \A i \in DOMAIN allocation_details :
            /\ allocation_details[i].allocated_bags_tally =
                   Cardinality({j \in EntriesOfRow(i) :
                                   entries[j].role = "tally"})
            /\ allocation_details[i].allocated_bags_dispatcher =
                   Cardinality({j \in EntriesOfRow(i) :
                                   entries[j].role = "dispatcher"})
            /\ allocation_details[i].heads = Some(SumHeads(EntriesOfRow(i)))


(***************************************************************************)
(* The plant of a log entry.                                               *)
(***************************************************************************)
\* C26: after any sequence of create, update and transfer requests, the
\* weight classification of every log entry belongs to the plant of the
\* entry's tally session.
C26_PlantConsistency ==
    \A i \in EntryIds :
        wcs[entries[i].weight_classification_id].plant_id =
            sessions[entries[i].tally_session_id].plant_id


(***************************************************************************)
(* The allocation row of a log entry.                                      *)
(***************************************************************************)
\* C27: after any sequence of creates, updates, deletes and transfers of
\* log entries, bulk resets, and updates and deletes of allocation rows,
\* every log entry has an allocation row of its session and
\* classification; the delete of an allocation row removes the row and the
\* log entries of its pair, and no other row or entry.
C27_EntryHasAllocation ==
    /\ \A i \in EntryIds :
           <<entries[i].tally_session_id, entries[i].weight_classification_id>>
               \in AllocKeys
    /\ \A key \in AllocKeys :
           LET post == delete_allocation_detail(key)
           IN  /\ post.result = "ok"
               /\ DOMAIN post.allocs = AllocKeys \ {key}
               /\ \A k \in AllocKeys \ {key} : post.allocs[k] = allocs[k]
               /\ DOMAIN post.entries = EntryIds \ EntriesOf(key)
               /\ \A i \in EntryIds \ EntriesOf(key) :
                      post.entries[i] = entries[i]

\* two log entries were created and every allocation row has been deleted
\* since: no log entry is left
C27_Witness ==
    /\ nextEntryId = 3
    /\ AllocKeys = {}
    /\ EntryIds = {}
    /\ result = "ok"


(***************************************************************************)
(* The required_bags that a transfer moves.                                *)
(***************************************************************************)
\* the sum of required_bags over the rows of al
RECURSIVE SumRequired(_)
SumRequired(al) ==
    IF DOMAIN al = {} THEN 0
    ELSE LET k == CHOOSE x \in DOMAIN al : TRUE
         IN  al[k].required_bags + SumRequired(DropKey(al, k))

\* the pair key is the source or the target pair of a TALLY entry that the
\* request moves
MovesTallyOf(entry_ids, target_session_id, key) ==
    \E i \in IdsOf(entry_ids) :
        /\ entries[i].role = "tally"
        /\ entries[i].weight_classification_id = key[2]
        /\ key[1] \in {entries[i].tally_session_id, target_session_id}

\* C28: a successful transfer leaves the sum of required_bags over all
\* allocation rows as it was, removes no row, and changes the required_bags
\* of no row but the source and target rows of the TALLY entries it moves.
C28_TransferConservesRequired ==
    \A entry_ids \in TransferLists, target_session_id \in SessionIds :
        LET post == transfer_tally_log_entries(entry_ids, target_session_id)
        IN  post.result = "ok" =>
                /\ SumRequired(post.allocs) = SumRequired(allocs)
                /\ AllocKeys \subseteq DOMAIN post.allocs
                /\ \A k \in DOMAIN post.allocs :
                       RequiredOf(post.allocs, k) # RequiredOf(allocs, k) =>
                           MovesTallyOf(entry_ids, target_session_id, k)

\* a transfer to session 3, whose rows are added by log entry handlers
\* alone, has given a row of the session a requirement, and a row that
\* holds a requirement of 3 took no part
C28_Witness ==
    /\ \E k \in AllocKeys :
           /\ k[1] = 3
           /\ allocs[k].required_bags = 1
           /\ \E i \in EntriesOf(k) :
                  /\ entries[i].role = "tally"
                  /\ entries[i].transferred_at # None
    /\ \E k \in AllocKeys : allocs[k].required_bags = 3
    /\ result = "ok"


(***************************************************************************)
(* The bounds of the stored ranges.                                        *)
(***************************************************************************)
\* C29: every stored Dressed or Frozen classification that has both bounds
\* has min_weight <= max_weight, after any sequence of creates and updates,
\* updates that send one bound alone included.
C29_RangesWellFormed ==
    \A i \in WcIds :
        (/\ wcs[i].category \in RangeCategories
         /\ wcs[i].min_weight # None
         /\ wcs[i].max_weight # None)
            => Val(wcs[i].min_weight) <= Val(wcs[i].max_weight)


\* the database has refused the bounds of a request, and a Dressed or
\* Frozen row with both bounds is stored
C29_Witness ==
    /\ result = "error"
    /\ \E i \in WcIds :
           /\ wcs[i].category \in RangeCategories
           /\ wcs[i].min_weight # None
           /\ wcs[i].max_weight # None


(***************************************************************************)
(* The numbers of the sessions of a customer.                              *)
(***************************************************************************)
\* C30: no two existing sessions of the same customer have the same
\* session_number, in every state reachable by creates, deletes and updates
\* of sessions, updates that change customer_id without renumbering
\* included.
C30_NumbersUniquePerCustomer ==
    \A i \in SessionIds, j \in SessionIds :
        (/\ i # j
         /\ sessions[i].customer_id = sessions[j].customer_id)
            => sessions[i].session_number # sessions[j].session_number

\* a session was moved to a customer that has other sessions, and the
\* database has refused the last request
C30_Witness ==
    /\ result = "error"
    /\ \E i \in SessionIds, j \in SessionIds :
           /\ i < j
           /\ sessions[i].customer_id = sessions[j].customer_id
           /\ sessions[i].session_number > sessions[j].session_number

====
